---------------------------- MODULE Spec2Model ----------------------------
(***************************************************************************)
(* SmartAcca: the bet-outcome evaluator, the AI retry loop, the daily      *)
(* accumulator selection, the result-resolution chain and the scheduler,   *)
(* modelled from the sources under src/predictions.                        *)
(*                                                                         *)
(* Text is modelled by TLA+ strings; Len, SubSeq and \o act on them as on  *)
(* sequences of characters.                                                *)
(***************************************************************************)
EXTENDS Integers, Sequences, FiniteSets, TLC

VARIABLES
    match,              \* evaluator harness: the Match object handed to _evaluate_prediction
    prediction_result,  \* evaluator harness: what _evaluate_prediction returned
    attempt,            \* analyze_match: the retry loop's attempt counter
    ai_pc,              \* analyze_match: "idle", "loop" (inside the for loop) or "done" (returned)
    ai_log,             \* analyze_match: the AI calls and sleeps made so far, in order
    ai_result,          \* analyze_match: the returned analysis
    db,                 \* the persisted Match rows, keyed by api_football_id
    now,                \* the wall clock, in hours
    upstream,           \* what the fixture source and the analysis return for the day
    gen_runs,           \* how many daily-selection runs have finished
    top_5_matches,      \* generate_daily_acca: the selection of the last run (fixture ids)
    target,             \* result resolution: the Match whose result is looked up
    web,                \* result resolution: what the primary API and the scraped sites answer
    queried,            \* result resolution: the sources queried so far, in order
    res_result,         \* result resolution: what _fetch_match_result returned
    phase,              \* the world: how far each fixture has been played
    fetch_pc,           \* fetch_results: "idle" or "running" (inside the for loop)
    fetch_caller,       \* fetch_results: who runs the batch, "cli" or "job"
    fetch_queue,        \* fetch_results: the Match objects of the queryset still to process
    fetch_found,        \* fetch_results: matches.count() of line 57
    successful,         \* fetch_results: the counter of line 59
    failed,             \* fetch_results: the counter of line 60
    unavailable,        \* the records whose last resolution returned None
    daemon,             \* run_scheduler: "down" or "up"
    results_jobs,       \* run_scheduler: the scheduled jobs tagged 'results'
    hour_due,           \* run_scheduler: the hourly job is pending
    morning_due,        \* run_scheduler: the 07:00 job is pending
    sched_last,         \* run_scheduler: how the last run of a scheduled job ended
    job_runs,           \* run_scheduler: the parity of the runs of job_fetch_results
    team_names,         \* matcher harness: the two names and the threshold handed to _teams_match
    names_matched       \* matcher harness: what _teams_match returned

evalVars == <<match, prediction_result>>
retryVars == <<attempt, ai_pc, ai_log, ai_result>>
storeVars == <<db, now>>
genVars == <<upstream, gen_runs, top_5_matches>>
resVars == <<target, web, queried, res_result>>
fetchVars ==
    <<fetch_pc, fetch_caller, fetch_queue, fetch_found, successful, failed, unavailable>>
schedVars == <<daemon, results_jobs, hour_due, morning_due, sched_last, job_runs>>
matcherVars == <<team_names, names_matched>>

vars ==
    <<evalVars, retryVars, storeVars, genVars, resVars, phase, fetchVars, schedVars,
      matcherVars>>

\* what each component leaves alone
notEval == <<retryVars, storeVars, genVars, resVars, phase, fetchVars, schedVars, matcherVars>>
notRetry == <<evalVars, storeVars, genVars, resVars, phase, fetchVars, schedVars, matcherVars>>
notGen == <<evalVars, retryVars, resVars, phase, fetchVars, schedVars, matcherVars>>
notRes == <<evalVars, retryVars, storeVars, genVars, phase, fetchVars, schedVars, matcherVars>>
notStore == <<evalVars, retryVars, resVars, matcherVars>>
notMatcher ==
    <<evalVars, retryVars, storeVars, genVars, resVars, phase, fetchVars, schedVars>>

(***************************************************************************)
(* Python string primitives                                                *)
(***************************************************************************)
UpperChars == "ABCDEFGHIJKLMNOPQRSTUVWXYZ"
LowerChars == "abcdefghijklmnopqrstuvwxyz"

\* str.lower() on one character
LowerChar(c) ==
    IF \E i \in 1..Len(UpperChars) : SubSeq(UpperChars, i, i) = c
    THEN LET i == CHOOSE j \in 1..Len(UpperChars) : SubSeq(UpperChars, j, j) = c
         IN  SubSeq(LowerChars, i, i)
    ELSE c

RECURSIVE Lower(_)
\* str.lower()
Lower(s) ==
    IF Len(s) = 0 THEN ""
    ELSE LowerChar(SubSeq(s, 1, 1)) \o Lower(SubSeq(s, 2, Len(s)))

\* sub in s
Contains(s, sub) ==
    \E i \in 1..(Len(s) - Len(sub) + 1) : SubSeq(s, i, i + Len(sub) - 1) = sub

\* s.startswith(prefix)
StartsWith(s, prefix) ==
    Len(prefix) <= Len(s) /\ SubSeq(s, 1, Len(prefix)) = prefix

\* s.endswith(suffix)
EndsWith(s, suffix) ==
    Len(suffix) <= Len(s) /\ SubSeq(s, Len(s) - Len(suffix) + 1, Len(s)) = suffix

RECURSIVE Replace(_, _, _)
\* s.replace(old, new) for a non-empty old: leftmost, non-overlapping occurrences
Replace(s, old, new) ==
    IF Len(s) < Len(old) THEN s
    ELSE IF SubSeq(s, 1, Len(old)) = old
         THEN new \o Replace(SubSeq(s, Len(old) + 1, Len(s)), old, new)
         ELSE SubSeq(s, 1, 1) \o Replace(SubSeq(s, 2, Len(s)), old, new)

RECURSIVE SplitFrom(_, _, _)
\* the pieces of s from position i on, cur being the piece under construction
SplitFrom(s, sep, cur) ==
    IF Len(s) = 0 THEN <<cur>>
    ELSE IF SubSeq(s, 1, 1) = sep
         THEN <<cur>> \o SplitFrom(SubSeq(s, 2, Len(s)), sep, "")
         ELSE SplitFrom(SubSeq(s, 2, Len(s)), sep, cur \o SubSeq(s, 1, 1))

\* s.split(sep) for a one-character sep
Split(s, sep) == SplitFrom(s, sep, "")

RECURSIVE LStrip(_)
LStrip(s) ==
    IF Len(s) > 0 /\ SubSeq(s, 1, 1) = " " THEN LStrip(SubSeq(s, 2, Len(s))) ELSE s

RECURSIVE RStrip(_)
RStrip(s) ==
    IF Len(s) > 0 /\ SubSeq(s, Len(s), Len(s)) = " "
    THEN RStrip(SubSeq(s, 1, Len(s) - 1)) ELSE s

\* s.strip()
Strip(s) == RStrip(LStrip(s))

\* str.upper() on one character
UpperChar(c) ==
    IF \E i \in 1..Len(LowerChars) : SubSeq(LowerChars, i, i) = c
    THEN LET i == CHOOSE j \in 1..Len(LowerChars) : SubSeq(LowerChars, j, j) = c
         IN  SubSeq(UpperChars, i, i)
    ELSE c

RECURSIVE Upper(_)
\* s.upper()
Upper(s) ==
    IF Len(s) = 0 THEN ""
    ELSE UpperChar(SubSeq(s, 1, 1)) \o Upper(SubSeq(s, 2, Len(s)))

(***************************************************************************)
(* BetPredicateEvaluator: Command._evaluate_prediction (fetch_results.py)  *)
(***************************************************************************)
\* a NULL home_score / away_score column
NoScore == -1

\* a verdict; correct is "True", "False" or "None" (Python's tri-state), and
\* raised tells that the call ended in an exception instead of returning
Verdict(correct) ==
    [raised |-> FALSE, correct |-> IF correct THEN "True" ELSE "False",
     outcome |-> IF correct THEN "WIN" ELSE "LOSS"]

UnknownVerdictAsLoss == [raised |-> FALSE, correct |-> "False", outcome |-> "UNKNOWN"]

UnknownVerdict == [raised |-> FALSE, correct |-> "None", outcome |-> "UNKNOWN"]
RaisedVerdict == [raised |-> TRUE, correct |-> "None", outcome |-> "RAISED"]

\* line 203: the parts a compound bet is split into, before they are stripped
CompoundParts(bet) == Split(Replace(bet, " and ", "&"), "&")

\* line 201: the conjunction marker test
IsCompound(bet) == Contains(bet, " and ") \/ Contains(bet, " & ")

\* line 222: the home-win patterns
IsHomeWinBet(bet, home) ==
    Contains(bet, "home win") \/ Contains(bet, home \o " win") \/ StartsWith(bet, home)

\* line 227: the away-win patterns
IsAwayWinBet(bet, away) ==
    Contains(bet, "away win") \/ Contains(bet, away \o " win")

\* line 232
IsDrawBet(bet) == Contains(bet, "draw") /\ ~Contains(bet, "double chance")

\* line 237
IsBttsBet(bet) ==
    \/ Contains(bet, "both teams to score")
    \/ Contains(bet, "btts")
    \/ Contains(Replace(bet, "-", ""), "gg")

\* line 242
IsOverBet(bet) == Contains(bet, "over 2.5") \/ Contains(bet, "o2.5")

\* line 247
IsUnderBet(bet) == Contains(bet, "under 2.5") \/ Contains(bet, "u2.5")

\* line 252
IsDoubleChanceBet(bet) == Contains(bet, "double chance") \/ Contains(bet, "or draw")

HomeWinCorrectGE(home_score, away_score) == home_score >= away_score

\* line 223
HomeWinCorrect(home_score, away_score) == home_score > away_score

\* line 228
AwayWinCorrect(home_score, away_score) == away_score > home_score

\* line 233
DrawCorrect(home_score, away_score) == home_score = away_score

BttsCorrectEither(home_score, away_score) == home_score > 0 \/ away_score > 0

\* line 238
BttsCorrect(home_score, away_score) == home_score > 0 /\ away_score > 0

OverCorrectFromTwo(total_goals) == total_goals >= 2

\* line 243: total_goals > 2.5, in halves
OverCorrect(total_goals) == 2 * total_goals > 5

\* line 248: total_goals < 2.5, in halves
UnderCorrect(total_goals) == 2 * total_goals < 5

\* lines 253-256
DoubleChanceCorrect(bet, home, home_score, away_score) ==
    IF Contains(bet, home) THEN home_score >= away_score ELSE away_score >= home_score

SimpleVerdictDrawFirst(bet, home_team, away_team, home_score, away_score) ==
    LET total_goals == home_score + away_score
        home == Lower(home_team)
        away == Lower(away_team)
    IN
    IF IsDrawBet(bet) THEN Verdict(DrawCorrect(home_score, away_score))
    ELSE IF IsHomeWinBet(bet, home) THEN Verdict(HomeWinCorrect(home_score, away_score))
    ELSE IF IsAwayWinBet(bet, away) THEN Verdict(AwayWinCorrect(home_score, away_score))
    ELSE IF IsBttsBet(bet) THEN Verdict(BttsCorrect(home_score, away_score))
    ELSE IF IsOverBet(bet) THEN Verdict(OverCorrect(total_goals))
    ELSE IF IsUnderBet(bet) THEN Verdict(UnderCorrect(total_goals))
    ELSE IF IsDoubleChanceBet(bet)
         THEN Verdict(DoubleChanceCorrect(bet, home, home_score, away_score))
    ELSE UnknownVerdict

\* lines 221-260: the ordered chain of simple patterns, first match wins
SimpleVerdict(bet, home_team, away_team, home_score, away_score) ==
    LET total_goals == home_score + away_score
        home == Lower(home_team)
        away == Lower(away_team)
    IN
    IF IsHomeWinBet(bet, home) THEN Verdict(HomeWinCorrect(home_score, away_score))
    ELSE IF IsAwayWinBet(bet, away) THEN Verdict(AwayWinCorrect(home_score, away_score))
    ELSE IF IsDrawBet(bet) THEN Verdict(DrawCorrect(home_score, away_score))
    ELSE IF IsBttsBet(bet) THEN Verdict(BttsCorrect(home_score, away_score))
    ELSE IF IsOverBet(bet) THEN Verdict(OverCorrect(total_goals))
    ELSE IF IsUnderBet(bet) THEN Verdict(UnderCorrect(total_goals))
    ELSE IF IsDoubleChanceBet(bet)
         THEN Verdict(DoubleChanceCorrect(bet, home, home_score, away_score))
    ELSE UnknownVerdict

RECURSIVE evaluate_prediction(_, _, _, _, _)
\* Command._evaluate_prediction on a Match with the given fields
evaluate_prediction(suggested_bet, home_team, away_team, home_score, away_score) ==
    LET bet == Lower(suggested_bet) IN
    IF home_score = NoScore \/ away_score = NoScore
    THEN RaisedVerdict          \* line 197: None + int raises TypeError
    ELSE IF IsCompound(bet)
    THEN LET parts == CompoundParts(bet)
             results == [i \in 1..Len(parts) |->
                            evaluate_prediction(Strip(parts[i]), home_team, away_team,
                                                home_score, away_score)]
             all_correct == \A i \in 1..Len(parts) : results[i].correct = "True"
         IN  IF \E i \in 1..Len(parts) : results[i].raised
             THEN RaisedVerdict
             ELSE Verdict(all_correct)
    ELSE SimpleVerdict(bet, home_team, away_team, home_score, away_score)


(***************************************************************************)
(* AIRetryExecutor: GeminiAnalyzer.analyze_match (intelligence.py)         *)
(* Durations are in milliseconds, confidence scores in tenths.             *)
(***************************************************************************)
max_retries == 3
base_delay_ms == 1000

Min(a, b) == IF a <= b THEN a ELSE b

RECURSIVE Pow2(_)
Pow2(n) == IF n = 0 THEN 1 ELSE 2 * Pow2(n - 1)

\* line 862: delay = base_delay * (2 ** attempt)
BackoffDelay(n) == base_delay_ms * Pow2(n)

\* line 864: the largest jitter, min(delay * 0.1, 1.0) seconds
JitterMax(delay) == Min(delay \div 10, 1000)

\* line 864: random.uniform(0, JitterMax), sampled at its ends
JitterChoices(delay) == {0, JitterMax(delay)}

DigitChars == "0123456789"
IsDigit(c) == \E i \in 1..10 : SubSeq(DigitChars, i, i) = c
DigitVal(c) == (CHOOSE i \in 1..10 : SubSeq(DigitChars, i, i) = c) - 1
CharAt(s, i) == IF i >= 1 /\ i <= Len(s) THEN SubSeq(s, i, i) ELSE ""

\* the characters i..j of s that exist (a Python slice never fails)
Slice(s, i, j) == IF i > Len(s) THEN "" ELSE SubSeq(s, i, Min(j, Len(s)))

RECURSIVE DigitRun(_, _)
\* how many digits s holds from position i on
DigitRun(s, i) == IF IsDigit(CharAt(s, i)) THEN 1 + DigitRun(s, i + 1) ELSE 0

RECURSIVE DigitsValue(_, _, _)
\* the value of the n digits of s from position i on
DigitsValue(s, i, n) ==
    IF n = 0 THEN 0 ELSE 10 * DigitsValue(s, i, n - 1) + DigitVal(CharAt(s, i + n - 1))

\* the first three fractional digits of s from position i on (n digits there), as milliseconds
FractionMillis(s, i, n) ==
    100 * (IF n >= 1 THEN DigitVal(CharAt(s, i)) ELSE 0)
    + 10 * (IF n >= 2 THEN DigitVal(CharAt(s, i + 1)) ELSE 0)
    + (IF n >= 3 THEN DigitVal(CharAt(s, i + 2)) ELSE 0)

NoDelay == -1

\* the group (\d+(?:\.\d+)?) at position i of s: [len, ms] of the longest form,
\* then of the form without a fraction; len = 0 when no digit stands at i
NumberForms(s, i) ==
    LET n1 == DigitRun(s, i)
        n2 == IF CharAt(s, i + n1) = "." THEN DigitRun(s, i + n1 + 1) ELSE 0
        whole == [len |-> n1, ms |-> 1000 * DigitsValue(s, i, n1)]
        frac == [len |-> n1 + 1 + n2,
                 ms |-> 1000 * DigitsValue(s, i, n1) + FractionMillis(s, i + n1 + 1, n2)]
    IN  IF n1 = 0 THEN <<>> ELSE IF n2 > 0 THEN <<frac, whole>> ELSE <<whole>>

\* lines 882, 884: r'retry in (\d+(?:\.\d+)?)s' matched at position i of the lowered text
RetryInAt(s, i) ==
    IF Slice(s, i, i + 8) # "retry in " THEN NoDelay
    ELSE LET forms == NumberForms(s, i + 9)
             ok == {k \in 1..Len(forms) : CharAt(s, i + 9 + forms[k].len) = "s"}
         IN  IF ok = {} THEN NoDelay
             ELSE forms[CHOOSE k \in ok : \A l \in ok : k <= l].ms

RECURSIVE SkipSpaces(_, _)
SkipSpaces(s, i) == IF CharAt(s, i) = " " THEN SkipSpaces(s, i + 1) ELSE i

IsQuote(c) == c = "'" \/ c = "\""

\* line 883: r"retryDelay['\"]:\s*['\"](\d+(?:\.\d+)?)s?['\"]" at position i of the lowered text
RetryDelayAt(s, i) ==
    IF Slice(s, i, i + 9) # "retrydelay" \/ ~IsQuote(CharAt(s, i + 10))
       \/ CharAt(s, i + 11) # ":"
    THEN NoDelay
    ELSE LET q == SkipSpaces(s, i + 12)
             forms == IF IsQuote(CharAt(s, q)) THEN NumberForms(s, q + 1) ELSE <<>>
             Closes(k) == LET e == q + 1 + forms[k].len
                          IN  \/ (CharAt(s, e) = "s" /\ IsQuote(CharAt(s, e + 1)))
                              \/ IsQuote(CharAt(s, e))
             ok == {k \in 1..Len(forms) : Closes(k)}
         IN  IF ok = {} THEN NoDelay
             ELSE forms[CHOOSE k \in ok : \A l \in ok : k <= l].ms

\* re.search with the pattern of RetryInAt: its leftmost match
SearchRetryIn(s) ==
    LET hits == {i \in 1..Len(s) : RetryInAt(s, i) # NoDelay}
    IN  IF hits = {} THEN NoDelay
        ELSE RetryInAt(s, CHOOSE i \in hits : \A j \in hits : i <= j)

\* re.search with the pattern of RetryDelayAt: its leftmost match
SearchRetryDelay(s) ==
    LET hits == {i \in 1..Len(s) : RetryDelayAt(s, i) # NoDelay}
    IN  IF hits = {} THEN NoDelay
        ELSE RetryDelayAt(s, CHOOSE i \in hits : \A j \in hits : i <= j)

\* GeminiAnalyzer._extract_retry_delay_from_error: the first pattern that matches
\* (re.IGNORECASE), in milliseconds; NoDelay for None
extract_retry_delay_from_error(error_str) ==
    LET s == Lower(error_str)
        p1 == SearchRetryIn(s)
    IN  IF p1 # NoDelay THEN p1 ELSE SearchRetryDelay(s)

\* line 662
is_rate_limit(error_str) ==
    \/ Contains(error_str, "429")
    \/ Contains(error_str, "RESOURCE_EXHAUSTED")
    \/ Contains(Lower(error_str), "quota")

\* GeminiAnalyzer._get_fallback_analysis
get_fallback_analysis(reason) ==
    [confidence_score |-> 0, risk_level |-> "High Risk", suggested_bet |-> "N/A",
     rationale |-> "Analysis unavailable: " \o reason]

\* lines 839-849: the neutral result of a response that is not JSON
NeutralAnalysis ==
    [confidence_score |-> 50, risk_level |-> "Medium Risk", suggested_bet |-> "N/A",
     rationale |-> "raw response text"]

NoAnalysis ==
    [confidence_score |-> 0, risk_level |-> "", suggested_bet |-> "", rationale |-> ""]

\* what generate_content can answer with text: the body is a JSON object, JSON of
\* another type, or no JSON at all; an object's confidence_score is a number
\* (tenths) or something float() rejects
Responses ==
    [body : {"object"}, fenced : BOOLEAN, number : BOOLEAN, confidence : {85, 120},
     risk_level : {"Low Risk"}, suggested_bet : {"Home Win"}]
    \cup [body : {"not_json", "array"}, fenced : BOOLEAN, number : {TRUE},
          confidence : {0}, risk_level : {""}, suggested_bet : {""}]

RECURSIVE LStripWs(_)
LStripWs(s) ==
    IF Len(s) > 0 /\ SubSeq(s, 1, 1) \in {" ", "\n", "\t"}
    THEN LStripWs(SubSeq(s, 2, Len(s))) ELSE s

RECURSIVE RStripWs(_)
RStripWs(s) ==
    IF Len(s) > 0 /\ SubSeq(s, Len(s), Len(s)) \in {" ", "\n", "\t"}
    THEN RStripWs(SubSeq(s, 1, Len(s) - 1)) ELSE s

\* the JSON texts of the model: an object, an array, and prose
ObjectText == "{..}"
ArrayText == "[..]"
ProseText == "Arsenal look strong."

\* response.text of the answer r: the body, inside a markdown fence or bare; the
\* backquote of the fence is written ^ (a string here cannot hold a backquote)
ResponseText(r) ==
    LET body == IF r.body = "object" THEN ObjectText
                ELSE IF r.body = "array" THEN ArrayText ELSE ProseText
    IN  IF r.fenced THEN "^^^json\n" \o body \o "\n^^^\n" ELSE body

\* lines 819-827: the text handed to json.loads
CleanedText(response_text) ==
    LET c0 == RStripWs(LStripWs(response_text))
        c1 == IF StartsWith(c0, "^^^json") THEN SubSeq(c0, 8, Len(c0)) ELSE c0
        c2 == IF StartsWith(c1, "^^^") THEN SubSeq(c1, 4, Len(c1)) ELSE c1
        c3 == IF EndsWith(c2, "^^^") THEN SubSeq(c2, 1, Len(c2) - 3) ELSE c2
    IN  RStripWs(LStripWs(c3))

\* line 830: what json.loads makes of the cleaned text
JsonKind(cleaned) ==
    IF cleaned = ObjectText THEN "object"
    ELSE IF cleaned = ArrayText THEN "array" ELSE "not_json"

\* GeminiAnalyzer._parse_gemini_response: [raised, error, analysis]
parse_gemini_response(r) ==
    LET kind == JsonKind(CleanedText(ResponseText(r))) IN
    IF kind = "not_json"              \* line 839: json.JSONDecodeError
    THEN [raised |-> FALSE, error |-> "", analysis |-> NeutralAnalysis]
    ELSE IF kind = "array"            \* line 833: parsed.get on a list
    THEN [raised |-> TRUE, error |-> "'list' object has no attribute 'get'",
          analysis |-> NoAnalysis]
    ELSE IF ~r.number                 \* line 833: float() of a non-number
    THEN [raised |-> TRUE, error |-> "could not convert string to float",
          analysis |-> NoAnalysis]
    ELSE [raised |-> FALSE, error |-> "",
          analysis |-> [confidence_score |-> r.confidence, risk_level |-> r.risk_level,
                        suggested_bet |-> r.suggested_bet, rationale |-> "rationale"]]

\* the messages generate_content can raise with
ErrorTexts ==
    {"429 RESOURCE_EXHAUSTED. Please retry in 2.5s.",
     "429 Too Many Requests, retryDelay': '3s'",
     "Quota exceeded for requests per minute",
     "429 RESOURCE_EXHAUSTED. Please retry in 0s.",
     "500 Internal error encountered"}

\* no response text: generate_content raised
NoResponse ==
    [body |-> "none", fenced |-> FALSE, number |-> TRUE, confidence |-> 0,
     risk_level |-> "", suggested_bet |-> ""]

\* the log of analyze_match: a sleep of ms milliseconds, or a call of
\* generate_content with what it raised (error) or answered (response)
SleepEvent(at, n, ms) ==
    [ev |-> "sleep", at |-> at, attempt |-> n, ms |-> ms, error |-> "",
     response |-> NoResponse]
CallEvent(n, outcome, error, response) ==
    [ev |-> "call", at |-> outcome, attempt |-> n, ms |-> 0, error |-> error,
     response |-> response]

AttemptsRemainLE(n) == n <= max_retries

\* line 668: attempts remain
AttemptsRemain(n) == n < max_retries

RetryingAnyError(error_str, n) == AttemptsRemain(n)

\* lines 664, 668: the failure is retried
Retrying(error_str, n) == is_rate_limit(error_str) /\ AttemptsRemain(n)

\* lines 631-634: the delay at the top of an iteration
LoopTopSleep(n, jitter) ==
    IF n > 0 THEN <<SleepEvent("loop_top", n, BackoffDelay(n) + jitter)>> ELSE <<>>

\* lines 669-675: the sleep of the rate-limit branch
ExceptSleep(n, retry_delay, jitter) ==
    IF retry_delay # NoDelay /\ retry_delay # 0      \* "if retry_delay:", 0.0 is falsy
    THEN <<SleepEvent("except", n, retry_delay + 1000)>>
    ELSE <<SleepEvent("except", n, BackoffDelay(n + 1) + jitter)>>

RetryInit ==
    /\ attempt = 0
    /\ ai_pc = "loop"
    /\ ai_log = <<>>
    /\ ai_result = NoAnalysis

RetryIdle ==
    /\ attempt = 0
    /\ ai_pc = "idle"
    /\ ai_log = <<>>
    /\ ai_result = NoAnalysis

\* lines 637-658: one iteration of the loop in which generate_content answers r
AttemptSucceeds ==
    /\ ai_pc = "loop"
    /\ \E r \in Responses, j1 \in JitterChoices(BackoffDelay(attempt)) :
         LET parsed == parse_gemini_response(r) IN
         /\ attempt = 0 => j1 = 0
         /\ ai_log' = ai_log \o LoopTopSleep(attempt, j1)
                        \o <<CallEvent(attempt, IF parsed.raised THEN "parse_error" ELSE "ok",
                                        "", r)>>
         \* an exception of the parser lands in the except clause of line 660; the
         \* messages modelled here are not rate-limit-shaped
         /\ parsed.raised => ~is_rate_limit(parsed.error)
         /\ ai_result' = IF parsed.raised
                         THEN get_fallback_analysis("Analysis error: " \o parsed.error)
                         ELSE parsed.analysis
    /\ ai_pc' = "done"
    /\ UNCHANGED <<attempt, notRetry>>

\* lines 660-683: one iteration of the loop in which generate_content raises
AttemptFails ==
    /\ ai_pc = "loop"
    /\ \E e \in ErrorTexts, j1 \in JitterChoices(BackoffDelay(attempt)),
          j2 \in JitterChoices(BackoffDelay(attempt + 1)) :
         LET retry_delay == extract_retry_delay_from_error(e)
             retrying == Retrying(e, attempt)
             backoff == retry_delay = NoDelay \/ retry_delay = 0
         IN
         /\ attempt = 0 => j1 = 0
         /\ ~(retrying /\ backoff) => j2 = 0
         /\ ai_log' = ai_log \o LoopTopSleep(attempt, j1)
                        \o <<CallEvent(attempt, IF is_rate_limit(e) THEN "rate_limit"
                                                ELSE "error", e, NoResponse)>>
                        \o (IF retrying THEN ExceptSleep(attempt, retry_delay, j2)
                            ELSE <<>>)
         /\ IF retrying
            THEN IF attempt + 1 <= max_retries
                 THEN /\ attempt' = attempt + 1
                      /\ UNCHANGED <<ai_pc, ai_result>>
                 ELSE \* line 686: the loop ran out
                      /\ ai_pc' = "done"
                      /\ ai_result' = get_fallback_analysis("Unexpected retry loop exit")
                      /\ UNCHANGED attempt
            ELSE /\ ai_pc' = "done"
                 /\ ai_result' = IF is_rate_limit(e)
                                 THEN get_fallback_analysis("Rate limit exceeded after 3 retries")
                                 ELSE get_fallback_analysis("Analysis error: " \o e)
                 /\ UNCHANGED attempt
    /\ UNCHANGED notRetry

RetryNext == AttemptSucceeds \/ AttemptFails

(***************************************************************************)
(* The persisted store: predictions.models.Match                           *)
(***************************************************************************)
\* how many fixtures exist
NumFixtures == 6

\* a day of the model, in hours
HoursPerDay == 3

Ids == 1..NumFixtures

DayOf(t) == t \div HoursPerDay

NULL == "NULL"

\* a row that does not exist; its columns carry the defaults of models.py
NoRow ==
    [exists |-> FALSE, match_date |-> 0, confidence_score |-> 0, suggested_bet |-> NULL,
     is_in_daily_acca |-> FALSE, home_score |-> NoScore, away_score |-> NoScore,
     match_status |-> NULL, result_fetched |-> FALSE, prediction_correct |-> "None",
     prediction_outcome |-> NULL, post_mortem_generated |-> FALSE]

EmptyStore == [id \in Ids |-> NoRow]

\* the fixtures of the fixture source: teams and league, by fixture id
Catalogue ==
    << [home_team |-> "Arsenal", away_team |-> "Chelsea", league_name |-> "Premier League"],
       [home_team |-> "Manchester United", away_team |-> "Tottenham Hotspur",
        league_name |-> "Premier League"],
       [home_team |-> "Watford", away_team |-> "Birmingham", league_name |-> "Championship"],
       [home_team |-> "Real Madrid", away_team |-> "Sevilla", league_name |-> "La Liga"] >>

FixtureOf(id) == Catalogue[((id - 1) % Len(Catalogue)) + 1]

(***************************************************************************)
(* AccumulatorSelector: generate_daily_acca.Command.handle                 *)
(***************************************************************************)
MAX_DAILY_ANALYSIS == 50
TopN == 5

top_leagues ==
    <<"Premier League", "La Liga", "Serie A", "Bundesliga", "Ligue 1",
      "Champions League", "Europa League">>

\* lines 77-81
get_league_priority(league_name) ==
    IF \E i \in 1..Len(top_leagues) : top_leagues[i] = league_name
    THEN (CHOOSE i \in 1..Len(top_leagues) : top_leagues[i] = league_name) - 1
    ELSE 999

\* where element i of a stable ascending sort by keys ends up
RankOf(keys, i) ==
    1 + Cardinality({j \in 1..Len(keys) :
                        keys[j] < keys[i] \/ (keys[j] = keys[i] /\ j < i)})

\* sorted(seq, key=...): stable, ascending in keys (keys[i] is the key of seq[i])
SortedAscending(seq, keys) ==
    LET key == keys @@ <<>>          \* the keys, computed once
        rank == [i \in 1..Len(seq) |-> RankOf(key, i)] @@ <<>>
    IN  [r \in 1..Len(seq) |-> seq[CHOOSE i \in 1..Len(seq) : rank[i] = r]]

\* line 83
prioritized_fixtures(fixtures) ==
    SortedAscending(fixtures,
        [i \in 1..Len(fixtures) |-> get_league_priority(fixtures[i].league_name)])

\* line 86
fixtures_to_analyze(fixtures) ==
    SubSeq(prioritized_fixtures(fixtures), 1, Min(Len(fixtures), MAX_DAILY_ANALYSIS))

\* lines 94-116: the analyses of the fixtures whose analysis did not raise
analyzed_matches(fixtures) ==
    SelectSeq(fixtures_to_analyze(fixtures), LAMBDA f : ~f.analysis_raised)

sorted_matches_ties_reversed(analyzed) ==
    LET n == Len(analyzed)
        reversed == [i \in 1..n |-> analyzed[n + 1 - i]]
    IN  SortedAscending(reversed, [i \in 1..n |-> 0 - reversed[i].confidence_score])

\* line 126: sorted(..., key=confidence_score, reverse=True); equal scores keep their order
sorted_matches(analyzed) ==
    SortedAscending(analyzed, [i \in 1..Len(analyzed) |-> 0 - analyzed[i].confidence_score])

\* line 129
low_risk_matches(sorted) == SelectSeq(sorted, LAMBDA m : m.risk_level = "Low Risk")

\* line 130
medium_risk_matches(sorted) == SelectSeq(sorted, LAMBDA m : m.risk_level = "Medium Risk")

acca_candidates_any_tier(sorted) == sorted

\* line 131
acca_candidates(sorted) == low_risk_matches(sorted) \o medium_risk_matches(sorted)

\* line 134
SelectTop5(sorted) ==
    LET c == acca_candidates(sorted)
    IN  IF Len(c) >= TopN THEN SubSeq(c, 1, TopN) ELSE c

\* lines 163-181: the fixtures skipped by the analysis quota, as minimal entries
skipped_fixtures(fixtures) ==
    LET taken == fixtures_to_analyze(fixtures)
        left == SelectSeq(fixtures,
                          LAMBDA f : ~\E i \in 1..Len(taken) : taken[i] = f)
    IN  [i \in 1..Len(left) |->
            [left[i] EXCEPT !.confidence_score = 0, !.risk_level = "Not Analyzed",
                            !.suggested_bet = "N/A", !.analysis_raised = FALSE]]

UpdateOrCreateKeepsExisting(row, m, is_in_acca) ==
    IF row.exists THEN row
    ELSE [row EXCEPT !.exists = TRUE,
                     !.match_date = m.match_date,
                     !.confidence_score = m.confidence_score,
                     !.suggested_bet = m.suggested_bet,
                     !.is_in_daily_acca = is_in_acca]

\* lines 195-210: update_or_create keyed by api_football_id
UpdateOrCreate(row, m, is_in_acca) ==
    [row EXCEPT !.exists = TRUE,
                !.match_date = m.match_date,
                !.confidence_score = m.confidence_score,
                !.suggested_bet = m.suggested_bet,
                !.is_in_daily_acca = is_in_acca]

SeqRange(seq) == {seq[i] : i \in 1..Len(seq)}

SaveAllNoClear(d, all, top, target_day) ==
    LET last == [id \in Ids |->
                    IF \E i \in 1..Len(all) : all[i].fixture_id = id
                    THEN CHOOSE i \in 1..Len(all) :
                            /\ all[i].fixture_id = id
                            /\ \A j \in 1..Len(all) : all[j].fixture_id = id => j <= i
                    ELSE 0]
    IN  [id \in Ids |->
            IF last[id] # 0
            THEN UpdateOrCreate(d[id], all[last[id]], all[last[id]] \in top)
            ELSE d[id]]

\* lines 143-241: the save step, on the store d; all is what is saved, in order
\* (the analysed matches, then the skipped fixtures), top the selection
SaveAll(d, all, top, target_day) ==
    LET \* lines 144-146
        cleared == [id \in Ids |->
                      IF d[id].exists /\ DayOf(d[id].match_date) = target_day
                      THEN [d[id] EXCEPT !.is_in_daily_acca = FALSE] ELSE d[id]]
        \* the last entry saved for an id is the one that stays
        last == [id \in Ids |->
                    IF \E i \in 1..Len(all) : all[i].fixture_id = id
                    THEN CHOOSE i \in 1..Len(all) :
                            /\ all[i].fixture_id = id
                            /\ \A j \in 1..Len(all) : all[j].fixture_id = id => j <= i
                    ELSE 0]
    IN  [id \in Ids |->
            IF last[id] # 0
            THEN UpdateOrCreate(cleared[id], all[last[id]], all[last[id]] \in top)
            ELSE cleared[id]]

\* lines 41-44: --reset clears the flag on every row
ResetAll(d, reset) ==
    [id \in Ids |-> IF reset /\ d[id].is_in_daily_acca
                    THEN [d[id] EXCEPT !.is_in_daily_acca = FALSE] ELSE d[id]]

\* the runs of the daily selection that the model follows
MaxRuns == 2

\* what the analysis can return for one fixture: (risk, confidence in tenths, bet);
\* the third is the neutral result of an unparseable response, the last the
\* fallback of a failed call
AnalysisChoices ==
    { [risk_level |-> "Low Risk", confidence_score |-> 80, suggested_bet |-> "Home Win"],
      [risk_level |-> "Low Risk", confidence_score |-> 40, suggested_bet |-> "BTTS"],
      [risk_level |-> "Medium Risk", confidence_score |-> 50, suggested_bet |-> "N/A"],
      [risk_level |-> "High Risk", confidence_score |-> 0, suggested_bet |-> "N/A"] }

\* a fixture of the fixture source with the analysis that analyze_match gives for it
Analysed(id, match_date, choice) ==
    [fixture_id |-> id, match_date |-> match_date,
     league_name |-> FixtureOf(id).league_name,
     confidence_score |-> choice.confidence_score,
     risk_level |-> choice.risk_level,
     suggested_bet |-> choice.suggested_bet,
     analysis_raised |-> FALSE]

\* the fixtures of day 0
UpstreamOf(choice) == [id \in Ids |-> Analysed(id, 0, choice[id])]

\* line 49: get_fixtures(target_date)
get_fixtures(target_day) ==
    SelectSeq(upstream, LAMBDA f : DayOf(f.match_date) = target_day)

GenInit ==
    /\ \E choice \in [Ids -> AnalysisChoices] : upstream = UpstreamOf(choice)
    /\ gen_runs = 0
    /\ top_5_matches = {}

GenIdle ==
    /\ upstream = <<>>
    /\ gen_runs = 0
    /\ top_5_matches = {}

StoreInit ==
    /\ db = EmptyStore
    /\ now = 0

\* generate_daily_acca.Command.handle for today; the fixture source raises, returns
\* nothing, or returns the day's fixtures
Generate(reset, source) ==
    LET d1 == ResetAll(db, reset)
        fixtures == IF source = "ok" THEN get_fixtures(DayOf(now)) ELSE <<>>
        analyzed == analyzed_matches(fixtures)
        sorted == sorted_matches(analyzed)
        top == SelectTop5(sorted)
    IN  IF Len(analyzed) > 0
        THEN /\ db' = SaveAll(d1, sorted \o skipped_fixtures(fixtures),
                              SeqRange(top), DayOf(now))
             /\ top_5_matches' = {m.fixture_id : m \in SeqRange(top)}
             /\ gen_runs' = gen_runs + 1
        ELSE \* lines 51-57, 118-120: nothing to save
             /\ db' = d1
             /\ UNCHANGED <<top_5_matches, gen_runs>>

\* python manage.py generate_daily_acca [--reset]
GenerateDailyAcca ==
    /\ gen_runs < MaxRuns
    /\ \E reset \in BOOLEAN, source \in {"raise", "empty", "ok"} : Generate(reset, source)
    /\ UNCHANGED <<now, upstream, notGen>>

GenNext == GenerateDailyAcca

\* a day with more fixtures than the analysis quota: fixtures of other ids (their
\* rows are not followed) come first in the source's list and use up the quota
\* wholly, in part or not at all before the fixtures 1..NumFixtures
QuotaFills == {MAX_DAILY_ANALYSIS - NumFixtures, MAX_DAILY_ANALYSIS - 3, MAX_DAILY_ANALYSIS}

OtherFixture(k) ==
    [fixture_id |-> NumFixtures + k, match_date |-> 0, league_name |-> "Premier League",
     confidence_score |-> 0, risk_level |-> "High Risk", suggested_bet |-> "N/A",
     analysis_raised |-> FALSE]

QuotaChoices ==
    { [risk_level |-> "Low Risk", confidence_score |-> 80, suggested_bet |-> "Home Win"],
      [risk_level |-> "High Risk", confidence_score |-> 0, suggested_bet |-> "N/A"] }

QuotaInit ==
    /\ \E n \in QuotaFills, choice \in [Ids -> QuotaChoices] :
          upstream = [k \in 1..n |-> OtherFixture(k)] \o UpstreamOf(choice)
    /\ gen_runs = 0
    /\ top_5_matches = {}

(***************************************************************************)
(* TeamNameMatcher: ResultScraper._teams_match (result_scraper.py)         *)
(***************************************************************************)
\* lines 305-318: the replacement table, in the order the dict is walked
replacements ==
    << <<" fc", "">>, <<" afc", "">>, <<" united", " utd">>, <<" city", "">>,
       <<" town", "">>, <<"manchester utd", "man utd">>,
       <<"manchester city", "man city">>, <<"tottenham hotspur", "tottenham">>,
       <<"brighton & hove albion", "brighton">>,
       <<"wolverhampton wanderers", "wolves">>,
       <<"west bromwich albion", "west brom">>, <<"queens park rangers", "qpr">> >>

RECURSIVE ApplyReplacements(_, _)
\* lines 320-321: the replacements from the k-th on, each applied to the result so far
ApplyReplacements(name, k) ==
    IF k > Len(replacements) THEN name
    ELSE ApplyReplacements(Replace(name, replacements[k][1], replacements[k][2]), k + 1)

\* line 324
suffixes == <<"fc", "afc", "cf", "sc">>

\* line 324: re.sub(r'\s+(fc|afc|cf|sc)$', '', name): a final suffix goes with the
\* white space in front of it, when there is some
RemoveSuffix(name) ==
    IF \E k \in 1..Len(suffixes) : EndsWith(name, " " \o suffixes[k])
    THEN LET k == CHOOSE j \in 1..Len(suffixes) : EndsWith(name, " " \o suffixes[j])
         IN  RStrip(SubSeq(name, 1, Len(name) - Len(suffixes[k])))
    ELSE name

\* lines 293-326
normalize_team_name(team_name) ==
    Strip(RemoveSuffix(ApplyReplacements(Strip(Lower(team_name)), 1)))

\* a[i..i+k-1] = b[j..j+k-1]
CommonAt(a, b, i, j, k) == SubSeq(a, i, i + k - 1) = SubSeq(b, j, j + k - 1)

\* the length of the longest block common to a and b
LongestLen(a, b) ==
    LET ks == {k \in 1..Min(Len(a), Len(b)) :
                 \E i \in 1..(Len(a) - k + 1) : Contains(b, SubSeq(a, i, i + k - 1))}
    IN  IF ks = {} THEN 0 ELSE CHOOSE k \in ks : \A l \in ks : l <= k

RECURSIVE MatchingChars(_, _)
\* difflib.SequenceMatcher.get_matching_blocks: the longest common block, the
\* earliest in a and then the earliest in b, and the same to its left and right
MatchingChars(a, b) ==
    LET k == LongestLen(a, b)
    IN  IF k = 0 THEN 0
        ELSE LET i == CHOOSE x \in 1..(Len(a) - k + 1) :
                        /\ Contains(b, SubSeq(a, x, x + k - 1))
                        /\ \A y \in 1..(x - 1) : ~Contains(b, SubSeq(a, y, y + k - 1))
                 j == CHOOSE x \in 1..(Len(b) - k + 1) :
                        /\ CommonAt(a, b, i, x, k)
                        /\ \A y \in 1..(x - 1) : ~CommonAt(a, b, i, y, k)
             IN  k + MatchingChars(SubSeq(a, 1, i - 1), SubSeq(b, 1, j - 1))
                   + MatchingChars(SubSeq(a, i + k, Len(a)), SubSeq(b, j + k, Len(b)))

\* line 264: threshold=0.75, in hundredths
default_threshold == 75

\* line 289-291: SequenceMatcher(None, t1, t2).ratio() >= threshold, the ratio
\* being 2.0 * matches / (len(t1) + len(t2))
SimilarEnough(t1, t2, threshold) ==
    200 * MatchingChars(t1, t2) >= threshold * (Len(t1) + Len(t2))

NamesMatchBySimilarityOnly(t1, t2, threshold) ==
    t1 = t2 \/ SimilarEnough(t1, t2, threshold)

\* lines 280-291, on the normalized names
NamesMatch(t1, t2, threshold) ==
    \/ t1 = t2
    \/ Contains(t2, t1)
    \/ Contains(t1, t2)
    \/ SimilarEnough(t1, t2, threshold)

\* lines 264-291, the threshold in hundredths
teams_match(team1, team2, threshold) ==
    NamesMatch(normalize_team_name(team1), normalize_team_name(team2), threshold)

(***************************************************************************)
(* Matcher harness: two names and a threshold (in hundredths), drawn from  *)
(* bounded sets, are handed to _teams_match once.                          *)
(***************************************************************************)
TeamNames ==
    {"Manchester United", "Man Utd", "Arsenal", " Arsenal FC", "Chelsea",
     "Aston Villa", "Villa", "QPR", "Wolves", "Newcastle Jets FC"}

Thresholds == {0, 43, default_threshold, 100}

NotMatched == [done |-> FALSE, result |-> FALSE]

MatcherInit ==
    /\ team_names \in [team1 : TeamNames, team2 : TeamNames, threshold : Thresholds]
    /\ names_matched = NotMatched

MatcherIdle ==
    /\ team_names = [team1 |-> "", team2 |-> "", threshold |-> default_threshold]
    /\ names_matched = NotMatched

\* self._teams_match(team1, team2, threshold)
TeamsMatch ==
    /\ ~names_matched.done
    /\ names_matched' =
          [done |-> TRUE,
           result |-> teams_match(team_names.team1, team_names.team2, team_names.threshold)]
    /\ UNCHANGED <<team_names, notMatcher>>

MatcherNext == TeamsMatch

(***************************************************************************)
(* ResultResolver: Command._fetch_match_result, Command._fetch_from_scraper *)
(* (fetch_results.py) and ResultScraper.get_match_result                   *)
(* (result_scraper.py)                                                     *)
(***************************************************************************)
\* a resolution result; None is NoResult
Result(home_score, away_score, status, source) ==
    [found |-> TRUE, home_score |-> home_score, away_score |-> away_score,
     status |-> status, source |-> source]

NoResult ==
    [found |-> FALSE, home_score |-> NoScore, away_score |-> NoScore,
     status |-> NULL, source |-> "None"]

\* int(text) for the texts of a score cell: a run of digits, anything else is a
\* ValueError
IsIntText(text) == Len(text) > 0 /\ DigitRun(text, 1) = Len(text)

\* lines 101-108 (ESPN), 181-188 (BBC Sport), 252 (FlashScore): the status of a
\* scraped fixture; status_text is NULL when the page has no status element
ScrapedStatus(source, status_text) ==
    LET text == Upper(Strip(status_text))
    IN  IF source = "FlashScore" \/ status_text = NULL THEN "FT"
        ELSE IF Contains(text, "HALF") \/ (source = "BBC Sport" /\ Contains(text, "HT"))
             THEN "HT"
        ELSE IF Contains(text, "LIVE") \/ Contains(text, "'") THEN "LIVE"
        ELSE "FT"

\* int(text) of a score cell
ScoreOf(text) == DigitsValue(text, 1, Len(text))

\* lines 93-117, 173-197, 240-256: the scores of a fixture element whose teams matched
ScoresResult(source, home_text, away_text, status_text) ==
    IF IsIntText(home_text) /\ IsIntText(away_text)
    THEN Result(ScoreOf(home_text), ScoreOf(away_text),
                ScrapedStatus(source, status_text), source)
    ELSE NoResult

\* lines 83-117, 163-197, 231-256: what one fixture element of a page gives
ElementResult(source, elem, home_team, away_team) ==
    IF /\ Len(elem.teams) >= 2
       /\ teams_match(home_team, Strip(elem.teams[1]), default_threshold)
       /\ teams_match(away_team, Strip(elem.teams[2]), default_threshold)
       /\ Len(elem.scores) >= 2
    THEN ScoresResult(source, Strip(elem.scores[1]), Strip(elem.scores[2]),
                      elem.status_text)
    ELSE NoResult

\* r when it is a result, else otherwise
FirstFound(r, otherwise) == IF r.found THEN r ELSE otherwise

RECURSIVE ScanPage(_, _, _, _, _)
\* the for loop over the fixture elements of a page, from the k-th on: the first
\* element that gives a result ends it
ScanPage(source, page, k, home_team, away_team) ==
    IF k > Len(page) THEN NoResult
    ELSE FirstFound(ElementResult(source, page[k], home_team, away_team),
                    ScanPage(source, page, k + 1, home_team, away_team))

\* _try_espn (50-123), _try_bbc_sport (125-203), _try_flashscore (205-262): answer
\* is what requests.get did: it raised, or it returned a status code and a page
try_source(source, answer, home_team, away_team) ==
    IF ~answer.raised /\ answer.status_code = 200
    THEN ScanPage(source, answer.page, 1, home_team, away_team)
    ELSE NoResult

scraper_order_bbc_first == <<"BBC Sport", "ESPN", "FlashScore">>

\* lines 33-46: the order of the sources
scraper_order == <<"ESPN", "BBC Sport", "FlashScore">>

\* lines 35-36, 40-41, 45-46: a result ends the chain, anything else goes on
ThenTry(source, r, rest) ==
    IF r.found THEN [result |-> r, queried |-> <<source>>]
    ELSE [result |-> rest.result, queried |-> <<source>> \o rest.queried]

RECURSIVE TrySources(_, _, _, _)
\* lines 33-48: the sources from the k-th on
TrySources(site, k, home_team, away_team) ==
    IF k > Len(scraper_order) THEN [result |-> NoResult, queried |-> <<>>]
    ELSE ThenTry(scraper_order[k],
                 try_source(scraper_order[k], site[scraper_order[k]], home_team, away_team),
                 TrySources(site, k + 1, home_team, away_team))

\* result_scraper.py lines 20-48
get_match_result(site, home_team, away_team) == TrySources(site, 1, home_team, away_team)

\* fetch_results.py lines 173-190; get_match_result catches what its sources raise
fetch_from_scraper(site, m) == get_match_result(site, m.home_team, m.away_team)

\* line 148: data.get('errors') and 'request limit' in str(data.get('errors')).lower()
IsQuotaError(errors) == errors # "" /\ Contains(Lower(errors), "request limit")

\* the primary API was asked first
AfterApi(s) == [result |-> s.result, queried |-> <<"API-Football">> \o s.queried]

\* fetch_match_result with line 166 replaced by the scrapers: an empty fixture list
\* falls through as well
fetch_match_result_scrapes_when_empty(site, m) ==
    LET api == site["API-Football"]
        fallsThrough ==
            \/ api.raised
            \/ api.status_code # 200
            \/ IsQuotaError(api.errors)
            \/ (Len(api.response) > 0 /\ ~api.response[1].well_formed)
            \/ Len(api.response) = 0
    IN  IF fallsThrough
        THEN AfterApi(fetch_from_scraper(site, m))
        ELSE [result |-> Result(api.response[1].home, api.response[1].away,
                                api.response[1].status, "API-Football"),
              queried |-> <<"API-Football">>]

\* fetch_match_result with the else branch of lines 161-164 left out: a non-success
\* status ends in line 166
fetch_match_result_no_status_fallback(site, m) ==
    LET api == site["API-Football"]
        fallsThrough ==
            \/ api.raised
            \/ (api.status_code = 200 /\ IsQuotaError(api.errors))
            \/ (api.status_code = 200 /\ Len(api.response) > 0
                  /\ ~api.response[1].well_formed)
    IN  IF fallsThrough
        THEN AfterApi(fetch_from_scraper(site, m))
        ELSE [result |-> IF api.status_code = 200 /\ Len(api.response) > 0
                         THEN Result(api.response[1].home, api.response[1].away,
                                     api.response[1].status, "API-Football")
                         ELSE NoResult,
              queried |-> <<"API-Football">>]

\* lines 128-171: api is what the primary API did and site what the scraped sites
\* answer; queried lists the sources asked, in order
fetch_match_result(site, m) ==
    LET api == site["API-Football"]
        fallsThrough ==
            \/ api.raised                             \* lines 168-171
            \/ api.status_code # 200                  \* lines 161-164
            \/ IsQuotaError(api.errors)               \* lines 148-150
            \* lines 153-158 raise KeyError / TypeError, caught at line 168
            \/ (Len(api.response) > 0 /\ ~api.response[1].well_formed)
    IN  IF fallsThrough
        THEN AfterApi(fetch_from_scraper(site, m))
        ELSE [result |-> IF Len(api.response) > 0                  \* line 152
                         THEN Result(api.response[1].home, api.response[1].away,
                                     api.response[1].status, "API-Football")
                         ELSE NoResult,                             \* line 166
              queried |-> <<"API-Football">>]

(***************************************************************************)
(* Resolver harness: one Match is resolved once against bounded answers of *)
(* the primary API and the three scraped sites.                            *)
(***************************************************************************)
Elem(teams, scores, status_text) ==
    [teams |-> teams, scores |-> scores, status_text |-> status_text]

\* a page with the fixtures played to the end
PageFinal ==
    << Elem(<<"Arsenal", "Chelsea">>, <<"0", "0">>, NULL),
       Elem(<<"Man Utd", "Tottenham">>, <<"2", "1">>, "FT"),
       Elem(<<" Watford FC ", "Birmingham City">>, <<"1", "1">>, NULL) >>

\* a page with the fixtures in play, the names spelled another way
PageLive ==
    << Elem(<<"Manchester Utd", "Tottenhem">>, <<"1", "0">>, "67'"),
       Elem(<<"Watford", "Birmingham">>, <<"0", "0">>, "Half Time") >>

\* a page without a usable entry for the fixtures
PageMiss ==
    << Elem(<<"Man Utd">>, <<"2", "1">>, NULL),
       Elem(<<"Man Utd", "Chelsea">>, <<"3", "0">>, NULL),
       Elem(<<"Manchester City", "Tottenham">>, <<"1", "1">>, NULL),
       Elem(<<"Man Utd", "Tottenham">>, <<"-", "-">>, NULL),
       Elem(<<"Watford", "Birmingham">>, <<"1">>, NULL) >>

Raised == [raised |-> TRUE, status_code |-> 0, page |-> <<>>]
Answer(status_code, page) == [raised |-> FALSE, status_code |-> status_code, page |-> page]

\* what a scraped site can answer
SiteAnswers ==
    {Raised, Answer(404, <<>>), Answer(200, PageMiss), Answer(200, PageFinal),
     Answer(200, PageLive)}

ApiRaised == [raised |-> TRUE, status_code |-> 0, errors |-> "", response |-> <<>>]
ApiAnswer(status_code, errors, response) ==
    [raised |-> FALSE, status_code |-> status_code, errors |-> errors,
     response |-> response]

ApiFixture(home, away, status) ==
    [home |-> home, away |-> away, status |-> status, well_formed |-> TRUE]

\* a fixture entry without the goals / status keys
ApiMalformed == [home |-> NoScore, away |-> NoScore, status |-> NULL, well_formed |-> FALSE]

QuotaText == "You have reached the request limit for the day"

\* what the primary API can answer
ApiAnswers ==
    {ApiRaised, ApiAnswer(500, "", <<>>), ApiAnswer(200, QuotaText, <<>>),
     ApiAnswer(200, QuotaText, <<ApiFixture(2, 1, "FT")>>),
     ApiAnswer(200, "", <<>>), ApiAnswer(200, "Invalid token", <<>>),
     ApiAnswer(200, "", <<ApiFixture(2, 1, "FT")>>),
     ApiAnswer(200, "", <<ApiFixture(NoScore, NoScore, "NS")>>),
     ApiAnswer(200, "", <<ApiMalformed>>)}

Web(api, espn, bbc, flashscore) ==
    [source \in {"API-Football", "ESPN", "BBC Sport", "FlashScore"} |->
        CASE source = "API-Football" -> api
          [] source = "ESPN" -> espn
          [] source = "BBC Sport" -> bbc
          [] OTHER -> flashscore]

\* the fixtures whose results are looked up
Targets == {FixtureOf(2), FixtureOf(3)}

ResInit ==
    /\ target \in Targets
    /\ \E api \in ApiAnswers, espn \in SiteAnswers, bbc \in SiteAnswers,
          flashscore \in SiteAnswers : web = Web(api, espn, bbc, flashscore)
    /\ queried = <<>>
    /\ res_result = NoResult

ResIdle ==
    /\ target = [home_team |-> "", away_team |-> "", league_name |-> ""]
    /\ web = Web(ApiRaised, Raised, Raised, Raised)
    /\ queried = <<>>
    /\ res_result = NoResult

\* the resolution returned r
Returned(r) ==
    /\ res_result' = r.result
    /\ queried' = r.queried

\* fetch_results.py line 67: result = self._fetch_match_result(api_client, match, scraper)
FetchMatchResult ==
    /\ queried = <<>>
    /\ Returned(fetch_match_result(web, target))
    /\ UNCHANGED <<target, web, notRes>>

ResNext == FetchMatchResult

(***************************************************************************)
(* The world: what the result sources know of a fixture as it is played    *)
(***************************************************************************)
\* not started, first half, full time, postponed, ended after extra time
Phases == {"NS", "1H", "FT", "PST", "AET"}

\* the goals the sources show in a phase
GoalsAt(ph) ==
    CASE ph = "1H" -> <<1, 0>>
      [] ph = "FT" -> <<2, 1>>
      [] ph = "AET" -> <<1, 2>>
      [] OTHER -> <<NoScore, NoScore>>

\* the text of a score cell
ScoreText(goals) == IF goals = NoScore THEN "-" ELSE CharAt(DigitChars, goals + 1)

StatusText(ph) ==
    CASE ph = "1H" -> "67'"
      [] ph = "FT" -> "FT"
      [] ph = "PST" -> "Postponed"
      [] OTHER -> NULL

\* the scoreboard page of a scraped site with the fixture in a phase
PageAt(id, ph) ==
    << Elem(<<FixtureOf(id).home_team, FixtureOf(id).away_team>>,
            <<ScoreText(GoalsAt(ph)[1]), ScoreText(GoalsAt(ph)[2])>>, StatusText(ph)) >>

\* how the sources behave at one lookup: the primary API answers with the fixture;
\* it answers with an empty list; its quota is exhausted and BBC Sport has the
\* fixture; nothing can be reached
Kinds == {"api", "empty", "scraper", "down"}

\* and: the primary API answers with the fixture, its goals null
AllKinds == Kinds \cup {"nogoals"}

SiteAt(id, ph, kind) ==
    CASE kind = "api" ->
            Web(ApiAnswer(200, "", <<ApiFixture(GoalsAt(ph)[1], GoalsAt(ph)[2], ph)>>),
                Raised, Raised, Raised)
      [] kind = "nogoals" ->
            Web(ApiAnswer(200, "", <<ApiFixture(NoScore, NoScore, ph)>>),
                Raised, Raised, Raised)
      [] kind = "empty" ->
            Web(ApiAnswer(200, "", <<>>), Answer(200, PageAt(id, ph)), Raised, Raised)
      [] kind = "scraper" ->
            Web(ApiAnswer(200, QuotaText, <<>>), Answer(404, <<>>),
                Answer(200, PageAt(id, ph)), Raised)
      [] OTHER ->
            Web(ApiAnswer(500, "", <<>>), Raised, Answer(404, <<>>), Answer(200, PageMiss))

\* fetch_results.py line 67 for each fixture, phase and behaviour of the sources,
\* tabulated
ResolvedAt ==
    [x \in Ids \X Phases \X AllKinds |->
        fetch_match_result(SiteAt(x[1], x[2], x[3]), FixtureOf(x[1])).result] @@ <<>>

(***************************************************************************)
(* ResultFetcher: fetch_results.Command.handle                             *)
(***************************************************************************)
\* line 23: --days-back, default 1
default_days_back == 1

\* lines 46-51: match_date__gte=cutoff_date, match_date__lte=now, result_fetched=False
InWindow(row, t, days_back) ==
    /\ row.match_date >= t - days_back * HoursPerDay
    /\ row.match_date <= t

DefaultSelected(d, t) ==
    {id \in Ids : /\ d[id].exists
                  /\ InWindow(d[id], t, default_days_back)
                  /\ ~d[id].result_fetched}

\* models.py line 45: ordering = ['-match_date']; the Match objects of the queryset
\* as the for loop of line 62 reads them
Snapshot(d, ids) ==
    LET idseq == SelectSeq([i \in 1..NumFixtures |-> i], LAMBDA i : i \in ids)
        order == SortedAscending(idseq, [k \in 1..Len(idseq) |-> 0 - d[idseq[k]].match_date])
    IN  [k \in 1..Len(order) |-> [id |-> order[k], row |-> d[order[k]]]]

\* lines 71-75
WithResult(row, r) ==
    [row EXCEPT !.home_score = r.home_score, !.away_score = r.away_score,
                !.match_status = r.status, !.result_fetched = TRUE]

IsEvaluatedAnyFinal(row) ==
    /\ row.suggested_bet # NULL /\ row.suggested_bet # ""
    /\ row.match_status \in {"FT", "AET", "PEN", "WO"}

\* line 83: if match.suggested_bet and match.match_status == 'FT'
IsEvaluated(row) ==
    /\ row.suggested_bet # NULL /\ row.suggested_bet # ""
    /\ row.match_status = "FT"

\* line 84
VerdictOf(id, row) ==
    evaluate_prediction(row.suggested_bet, FixtureOf(id).home_team,
                        FixtureOf(id).away_team, row.home_score, row.away_score)

\* lines 85-86
WithVerdict(row, v) ==
    [row EXCEPT !.prediction_correct = v.correct, !.prediction_outcome = v.outcome]

\* lines 94-101: generated tells whether _generate_post_mortem returned a text
WithPostMortem(row, generated) ==
    IF row.is_in_daily_acca /\ generated
    THEN [row EXCEPT !.post_mortem_generated = TRUE] ELSE row

\* line 104: match.save() writes every field of the Match object
Save(d, id, row) == [d EXCEPT ![id] = row]

ResultUnavailableMarksFetched(d, id) == [d EXCEPT ![id].result_fetched = TRUE]

\* lines 107-109: the result is not available, nothing is written
ResultUnavailable(d, id) == d

EvaluationRaisedAfterSave(d, id, row) == Save(d, id, row)

\* lines 114-117: line 84 raised before match.save() of line 104 was reached; the
\* Match object changed in memory (lines 71-75) is dropped
EvaluationRaised(d, id, row) == d

CountFailedNot(n) == n

\* lines 109, 116: failed += 1
CountFailed(n) == n + 1

FetchIdle ==
    /\ fetch_pc = "idle"
    /\ fetch_caller = "cli"
    /\ fetch_queue = <<>>
    /\ fetch_found = 0
    /\ successful = 0
    /\ failed = 0
    /\ unavailable = {}

\* lines 53-62 for the default query: nothing to process, or the loop is entered
BeginBatch(caller) ==
    /\ fetch_pc' = "running"
    /\ fetch_caller' = caller
    /\ fetch_queue' = Snapshot(db, DefaultSelected(db, now))
    /\ fetch_found' = Cardinality(DefaultSelected(db, now))
    /\ successful' = 0
    /\ failed' = 0
    /\ UNCHANGED unavailable

(***************************************************************************)
(* Scheduler: run_scheduler.Command                                        *)
(***************************************************************************)
\* the hours the model follows
MaxTime == 4

\* line 19: every().day.at("07:00"), as an hour of the day
MorningHour == 1

\* line 96
finished_statuses == {"FT", "AET", "PEN", "PST", "CANC", "ABD", "WO"}

IsUnfinishedUnlessNull(status) == status # NULL /\ status \notin finished_statuses

\* line 98: exclude(match_status__in=finished_statuses) keeps the rows whose status
\* is NULL
IsUnfinished(status) == status \notin finished_statuses

\* lines 86-89
todays_matches(d, t) ==
    {id \in Ids : d[id].exists /\ DayOf(d[id].match_date) = DayOf(t)
                               /\ d[id].is_in_daily_acca}

\* lines 78-105
should_run_result_fetching(d, t) ==
    /\ todays_matches(d, t) # {}
    /\ \E id \in todays_matches(d, t) : IsUnfinished(d[id].match_status)

SchedIdle ==
    /\ daemon = "down"
    /\ results_jobs = 0
    /\ hour_due = FALSE
    /\ morning_due = FALSE
    /\ sched_last = "none"
    /\ job_runs = 0

WorldIdle == phase = [id \in Ids |-> "NS"]

RestIdle == WorldIdle /\ FetchIdle /\ SchedIdle /\ MatcherIdle

\* start_result_fetching without schedule.clear('results') of line 53
start_result_fetching_without_clear ==
    /\ results_jobs' = results_jobs + 1
    /\ hour_due' = FALSE

\* lines 47-57: start_result_fetching
start_result_fetching ==
    /\ results_jobs' = 1
    /\ hour_due' = FALSE

\* lines 67-76: how job_fetch_results ends after call_command: it raised, or the
\* check of line 71 decides
JobReturns(raised) ==
    /\ hour_due' = FALSE
    /\ job_runs' = 1 - job_runs
    /\ IF raised
       THEN sched_last' = "exception" /\ UNCHANGED results_jobs
       ELSE IF ~should_run_result_fetching(db, now)
            THEN sched_last' = "cancelled" /\ results_jobs' = results_jobs - 1
            ELSE sched_last' = "kept" /\ UNCHANGED results_jobs
    /\ UNCHANGED <<daemon, morning_due>>

\* an hour passes and the clock shows t; the pending jobs of a running daemon
\* become due
HourPasses(t) ==
    /\ fetch_pc = "idle"
    /\ now' = t
    /\ hour_due' = (daemon = "up" /\ results_jobs > 0)
    /\ morning_due' = (daemon = "up" /\
                        (morning_due \/ (t # now /\ t % HoursPerDay = MorningHour)))
    /\ UNCHANGED <<db, genVars, phase, fetchVars, daemon, results_jobs, sched_last,
                   job_runs, notStore>>

Tick ==
    /\ now < MaxTime
    /\ HourPasses(now + 1)

\* the last hour of day 0
LastHour == HoursPerDay - 1

\* an hour of day 0 passes; the day's last hour stands for the hours left of it
SameDayHour == HourPasses(IF now < LastHour THEN now + 1 ELSE now)

\* the fixtures the fixture source knows
UpstreamIds == {upstream[k].fixture_id : k \in 1..Len(upstream)}

\* a fixture kicks off or is postponed, or its match ends
WorldAdvance ==
    /\ fetch_pc = "idle"
    /\ \E id \in UpstreamIds :
         \E ph \in Phases :
            /\ \/ phase[id] = "NS" /\ ph \in {"1H", "PST"}
               \/ phase[id] = "1H" /\ ph = "FT"
            /\ phase' = [phase EXCEPT ![id] = ph]
    /\ UNCHANGED <<storeVars, genVars, fetchVars, schedVars, notStore>>

\* a match in play is decided in extra time
WorldExtraTime ==
    /\ fetch_pc = "idle"
    /\ \E id \in UpstreamIds :
          /\ phase[id] = "1H"
          /\ phase' = [phase EXCEPT ![id] = "AET"]
    /\ UNCHANGED <<storeVars, genVars, fetchVars, schedVars, notStore>>

\* python manage.py fetch_results
FetchBegin ==
    /\ fetch_pc = "idle"
    /\ IF DefaultSelected(db, now) = {}
       THEN UNCHANGED fetchVars           \* lines 53-55
       ELSE BeginBatch("cli")
    /\ UNCHANGED <<storeVars, genVars, phase, schedVars, notStore>>

\* lines 62-117: one pass of the for loop; kinds is how the sources may behave
FetchProcess(kinds) ==
    /\ fetch_pc = "running"
    /\ fetch_queue # <<>>
    /\ \E kind \in kinds, generated \in BOOLEAN :
         LET id == Head(fetch_queue).id
             r == ResolvedAt[<<id, phase[id], kind>>]
             row == WithResult(Head(fetch_queue).row, r)
             v == VerdictOf(id, row)
         IN  IF ~r.found
             THEN /\ db' = ResultUnavailable(db, id)
                  /\ failed' = CountFailed(failed)
                  /\ unavailable' = unavailable \cup {id}
                  /\ UNCHANGED successful
             ELSE IF IsEvaluated(row) /\ v.raised
             THEN /\ db' = EvaluationRaised(db, id, row)
                  /\ failed' = CountFailed(failed)
                  /\ UNCHANGED <<successful, unavailable>>
             ELSE /\ db' = Save(db, id, IF IsEvaluated(row)
                                        THEN WithPostMortem(WithVerdict(row, v), generated)
                                        ELSE row)
                  /\ successful' = successful + 1
                  /\ unavailable' = unavailable \ {id}
                  /\ UNCHANGED failed
    /\ fetch_queue' = Tail(fetch_queue)
    /\ UNCHANGED <<fetch_pc, fetch_caller, fetch_found, now, genVars, phase, schedVars,
                   notStore>>

\* lines 119-126: the loop is over; a batch run by the hourly job returns to
\* job_fetch_results
FetchEnd(raises) ==
    /\ fetch_pc = "running"
    /\ fetch_queue = <<>>
    /\ fetch_pc' = "idle"
    /\ IF fetch_caller = "job"
       THEN \E raised \in raises : JobReturns(raised)
       ELSE UNCHANGED schedVars
    /\ UNCHANGED <<fetch_caller, fetch_queue, fetch_found, successful, failed, unavailable,
                   storeVars, genVars, phase, notStore>>

\* lines 15-28: python manage.py run_scheduler
DaemonStart ==
    /\ daemon = "down"
    /\ daemon' = "up"
    /\ morning_due' = FALSE
    /\ IF should_run_result_fetching(db, now)
       THEN start_result_fetching
       ELSE UNCHANGED <<results_jobs, hour_due>>
    /\ UNCHANGED <<sched_last, job_runs, storeVars, genVars, phase, fetchVars, notStore>>

\* the process is stopped; its jobs, and the batch it runs, are gone with it
DaemonStop ==
    /\ daemon = "up"
    /\ daemon' = "down"
    /\ results_jobs' = 0
    /\ hour_due' = FALSE
    /\ morning_due' = FALSE
    /\ IF fetch_pc = "running" /\ fetch_caller = "job"
       THEN fetch_pc' = "idle" /\ fetch_queue' = <<>>
       ELSE UNCHANGED <<fetch_pc, fetch_queue>>
    /\ UNCHANGED <<sched_last, job_runs, fetch_caller, fetch_found, successful, failed,
                   unavailable, storeVars, genVars, phase, notStore>>

\* lines 30-45: job_fetch_matches; call_command raises, or the command returns
JobFetchMatches(outcomes, sources) ==
    /\ daemon = "up"
    /\ morning_due
    /\ fetch_pc = "idle"
    /\ morning_due' = FALSE
    /\ \E outcome \in outcomes :
         IF outcome = "raise"
         THEN \* lines 44-45
              /\ sched_last' = "generation_failed"
              /\ UNCHANGED <<db, top_5_matches, gen_runs, results_jobs, hour_due>>
         ELSE \* lines 38-42
              /\ \E source \in sources : Generate(TRUE, source)
              /\ sched_last' = "generated"
              /\ start_result_fetching
    /\ UNCHANGED <<daemon, job_runs, now, upstream, phase, fetchVars, notStore>>

\* lines 59-76: job_fetch_results up to the for loop of fetch_results
JobFetchResults(outcomes) ==
    /\ daemon = "up"
    /\ results_jobs > 0
    /\ hour_due
    /\ fetch_pc = "idle"
    /\ \E outcome \in outcomes :
         IF outcome = "raise"
         THEN JobReturns(TRUE) /\ UNCHANGED fetchVars
         ELSE IF DefaultSelected(db, now) = {}
              THEN JobReturns(FALSE) /\ UNCHANGED fetchVars
              ELSE /\ BeginBatch("job")
                   /\ UNCHANGED schedVars
    /\ UNCHANGED <<storeVars, genVars, phase, notStore>>

\* the fixtures of day 0 in the batch and scheduler models: two fixtures, kicking
\* off in the second and third hour of the day
DayChoices ==
    { [risk_level |-> "Low Risk", confidence_score |-> 80, suggested_bet |-> "Home Win"],
      [risk_level |-> "High Risk", confidence_score |-> 0, suggested_bet |-> "N/A"] }

DayInit ==
    /\ \E c1 \in DayChoices, c2 \in DayChoices :
          upstream = <<Analysed(1, 1, c1), Analysed(2, 2, c2)>>
    /\ gen_runs = 0
    /\ top_5_matches = {}

\* fetch_results.py lines 39-43 and 53-62: the records of a --match-id or --date
\* query, with no test of result_fetched; nothing to process, or the loop is entered
BeginQuery(ids) ==
    IF ids = {}
    THEN UNCHANGED fetchVars
    ELSE /\ fetch_pc' = "running"
         /\ fetch_caller' = "cli"
         /\ fetch_queue' = Snapshot(db, ids)
         /\ fetch_found' = Cardinality(ids)
         /\ successful' = 0
         /\ failed' = 0
         /\ UNCHANGED unavailable

\* python manage.py fetch_results --date D
FetchByDate ==
    /\ fetch_pc = "idle"
    /\ \E day \in 0..DayOf(MaxTime) :
         BeginQuery({id \in Ids : db[id].exists /\ DayOf(db[id].match_date) = day})
    /\ UNCHANGED <<storeVars, genVars, phase, schedVars, notStore>>

\* python manage.py fetch_results --match-id N
FetchById ==
    /\ fetch_pc = "idle"
    /\ \E match_id \in Ids : BeginQuery({id \in {match_id} : db[id].exists})
    /\ UNCHANGED <<storeVars, genVars, phase, schedVars, notStore>>

\* the --status values and the scores an operator enters
ManualStatuses == {"FT", "1H", "AET"}
ManualScores == {<<1, 0>>, <<0, 0>>}

\* manual_results.py lines 16-101: the record is read, changed and saved
ManualOverride ==
    \E match_id \in Ids, score \in ManualScores, status \in ManualStatuses,
       generated \in BOOLEAN :
      LET row == WithResult(db[match_id],
                            [home_score |-> score[1], away_score |-> score[2],
                             status |-> status])
          v == VerdictOf(match_id, row)
      IN  IF ~db[match_id].exists
          THEN UNCHANGED db                   \* lines 19-21
          ELSE IF IsEvaluated(row) /\ v.raised
          THEN UNCHANGED db
          ELSE db' = Save(db, match_id,
                          IF IsEvaluated(row)
                          THEN WithPostMortem(WithVerdict(row, v), generated)
                          ELSE row)

\* python manage.py manual_results --match-id N --home-score H --away-score A
\* [--status S], run while no batch of fetch_results is under way
ManualResult ==
    /\ fetch_pc = "idle"
    /\ ManualOverride
    /\ UNCHANGED <<now, genVars, phase, fetchVars, schedVars, notStore>>

\* the same command run from another shell while fetch_results is inside its for
\* loop (fetch_results.py lines 62-117 hold the Match objects read at line 62 and
\* sleep a second after each record, line 111)
ManualResultDuringBatch ==
    /\ fetch_pc = "running"
    /\ ManualOverride
    /\ UNCHANGED <<now, genVars, phase, fetchVars, schedVars, notStore>>

\* the commands an operator runs by hand, one at a time and in any order, with a
\* primary API that answers
OpsNext ==
    \/ GenerateDailyAcca
    \/ Tick
    \/ WorldAdvance
    \/ FetchBegin
    \/ FetchByDate
    \/ FetchById
    \/ FetchProcess({"api"})
    \/ FetchEnd({FALSE})
    \/ ManualResult

\* the operator's commands when a match can end after extra time
ExtraTimeNext ==
    \/ GenerateDailyAcca
    \/ Tick
    \/ WorldAdvance
    \/ WorldExtraTime
    \/ FetchBegin
    \/ FetchById
    \/ FetchProcess({"api"})
    \/ FetchEnd({FALSE})
    \/ ManualResult

\* a default batch of fetch_results and an operator entering results by hand at
\* the same time
RaceNext ==
    \/ GenerateDailyAcca
    \/ Tick
    \/ WorldAdvance
    \/ FetchBegin
    \/ FetchProcess({"api"})
    \/ FetchEnd({FALSE})
    \/ ManualResultDuringBatch

\* fetch_results.py lines 312-331 and views.py lines 55-67, 105-111, 132-136: the
\* counts a statistics block reports for the records it selects, and its accuracy
\* correct / total * 100 as the fraction num / den
StatsOver(d, population) ==
    [total |-> Cardinality(population),
     correct |-> Cardinality({id \in population : d[id].prediction_correct = "True"}),
     incorrect |-> Cardinality({id \in population : d[id].prediction_correct = "False"}),
     accuracy |-> [num |-> Cardinality({id \in population :
                                           d[id].prediction_correct = "True"}),
                   den |-> Cardinality(population)]]

\* fetch_results.py lines 314-319
acca_matches(d) ==
    {id \in Ids : /\ d[id].exists /\ d[id].is_in_daily_acca /\ d[id].result_fetched
                  /\ d[id].match_status = "FT" /\ d[id].prediction_outcome # NULL}

show_accuracy_stats(d) == StatsOver(d, acca_matches(d))

\* views.py line 98: days, default 7
default_days == 7

\* views.py lines 103-111
base_query(d, t, days) ==
    {id \in Ids : /\ d[id].exists /\ d[id].match_date >= t - days * HoursPerDay
                  /\ d[id].result_fetched /\ d[id].match_status = "FT"
                  /\ d[id].is_in_daily_acca}

post_mortem(d, t) == StatsOver(d, base_query(d, t, default_days))

\* views.py lines 19-24 and 57: the dashboard of today with no status filter
completed_matches(d, t) ==
    {id \in Ids : /\ d[id].exists /\ d[id].confidence_score # 0
                  /\ DayOf(d[id].match_date) = DayOf(t)
                  /\ d[id].result_fetched /\ d[id].match_status = "FT"}

dashboard(d, t) == StatsOver(d, completed_matches(d, t))

\* two fixtures of day 0 whose analysis is confident, or is the neutral result of
\* a response that could not be parsed
SettleChoices ==
    { [risk_level |-> "Low Risk", confidence_score |-> 80, suggested_bet |-> "Home Win"],
      [risk_level |-> "Medium Risk", confidence_score |-> 50, suggested_bet |-> "N/A"] }

SettleInit ==
    /\ \E c1 \in SettleChoices, c2 \in SettleChoices :
          upstream = <<Analysed(1, 1, c1), Analysed(2, 2, c2)>>
    /\ gen_runs = 0
    /\ top_5_matches = {}

\* the day's selection and the result cycles with a primary API that answers
SettleNext ==
    \/ GenerateDailyAcca
    \/ Tick
    \/ WorldAdvance
    \/ FetchBegin
    \/ FetchProcess({"api"})
    \/ FetchEnd({FALSE})

\* the fixture source and the analysis between two runs of the daily selection:
\* all fixtures but the last two are Low-risk fixtures of day 0; the last but one
\* is Low or High risk, the last is too and is played on day 0 or on day 1
Reschedulings ==
    { [id \in Ids |->
          Analysed(id, IF id = NumFixtures THEN date ELSE 0,
                   IF id = NumFixtures THEN c2
                   ELSE IF id = NumFixtures - 1 THEN c1
                   ELSE CHOOSE c \in DayChoices : c.risk_level = "Low Risk")]
      : c1 \in DayChoices, c2 \in DayChoices, date \in {0, HoursPerDay} }

ReselectInit ==
    /\ upstream \in Reschedulings
    /\ gen_runs = 0
    /\ top_5_matches = {}

\* a fixture is rescheduled, or its analysis comes out differently
Reanalyse ==
    /\ \E u \in Reschedulings : u # upstream /\ upstream' = u
    /\ UNCHANGED <<db, now, gen_runs, top_5_matches, notGen>>

ReselectNext ==
    \/ GenerateDailyAcca
    \/ Reanalyse
    \/ Tick

FetchNext ==
    \/ GenerateDailyAcca
    \/ Tick
    \/ WorldAdvance
    \/ FetchBegin
    \/ FetchProcess(AllKinds)
    \/ FetchEnd({FALSE})

\* day 0 with sources that answer and a daemon that stays up
LiveNext ==
    \/ DaemonStart
    \/ SameDayHour
    \/ WorldAdvance
    \/ JobFetchMatches({"ok"}, {"ok"})
    \/ JobFetchResults({"ok"})
    \/ FetchProcess({"api"})
    \/ FetchEnd({FALSE})

SchedNext ==
    \/ DaemonStart
    \/ DaemonStop
    \/ Tick
    \/ WorldAdvance
    \/ JobFetchMatches({"ok", "raise"}, {"raise", "empty", "ok"})
    \/ JobFetchResults({"ok", "raise"})
    \/ FetchProcess(Kinds)
    \/ FetchEnd({FALSE, TRUE})

(***************************************************************************)
(* Evaluator harness: one Match, built from bounded inputs, is handed to   *)
(* _evaluate_prediction once.                                              *)
(***************************************************************************)
MaxGoals == 3

\* bet texts a part of a suggested bet is drawn from
PartTexts ==
    {"Home Win", "Away Win", "Draw", "BTTS", "Both teams to score", "G-G",
     "Over 2.5", "U2.5", "Arsenal win", "Chelsea", "Arsenal or Draw",
     "Double Chance", "Some Exotic Bet Type", "Home Win&Draw", "Under 2.5", "o2.5"}

Markers == {" and ", " & "}

\* (home team, away team) of the evaluated fixture
TeamPairs == {<<"Arsenal", "Chelsea">>, <<"Chelsea", "Arsenal">>}

NotEvaluated == [raised |-> FALSE, correct |-> "None", outcome |-> "PENDING"]

\* betParts is <<X>> for a simple bet and <<X, marker, Y>> for the compound X marker Y
BetOf(parts) == IF Len(parts) = 1 THEN parts[1] ELSE parts[1] \o parts[2] \o parts[3]

EvalInit ==
    /\ \E x \in PartTexts, t \in TeamPairs, h \in 0..MaxGoals, a \in 0..MaxGoals :
         \E parts \in {<<x>>} \cup {<<x, m, y>> : m \in Markers, y \in PartTexts} :
            match = [betParts |-> parts, suggested_bet |-> BetOf(parts),
                     home_team |-> t[1], away_team |-> t[2],
                     home_score |-> h, away_score |-> a]
    /\ prediction_result = NotEvaluated

EvalIdle ==
    /\ match = [betParts |-> <<"N/A">>, suggested_bet |-> "N/A", home_team |-> "",
                away_team |-> "", home_score |-> NoScore, away_score |-> NoScore]
    /\ prediction_result = NotEvaluated

\* fetch_results.py line 84: prediction_result = self._evaluate_prediction(match)
EvaluatePrediction ==
    /\ prediction_result = NotEvaluated
    /\ prediction_result' = evaluate_prediction(match.suggested_bet, match.home_team,
                                match.away_team, match.home_score, match.away_score)
    /\ UNCHANGED <<match, notEval>>

EvalNext == EvaluatePrediction

EvalSpecInit == EvalInit /\ RetryIdle /\ StoreInit /\ GenIdle /\ ResIdle /\ RestIdle

EvalSpec == EvalSpecInit /\ [][EvalNext]_vars

RetrySpecInit == RetryInit /\ EvalIdle /\ StoreInit /\ GenIdle /\ ResIdle /\ RestIdle

RetrySpec == RetrySpecInit /\ [][RetryNext]_vars

SelectSpecInit == GenInit /\ StoreInit /\ EvalIdle /\ RetryIdle /\ ResIdle /\ RestIdle

SelectSpec == SelectSpecInit /\ [][GenNext]_vars

QuotaSpecInit == QuotaInit /\ StoreInit /\ EvalIdle /\ RetryIdle /\ ResIdle /\ RestIdle

QuotaSpec == QuotaSpecInit /\ [][GenNext]_vars

MatcherSpecInit ==
    /\ MatcherInit /\ EvalIdle /\ RetryIdle /\ StoreInit /\ GenIdle /\ ResIdle
    /\ WorldIdle /\ FetchIdle /\ SchedIdle

MatcherSpec == MatcherSpecInit /\ [][MatcherNext]_vars

ResolveSpecInit == ResInit /\ EvalIdle /\ RetryIdle /\ StoreInit /\ GenIdle /\ RestIdle

ResolveSpec == ResolveSpecInit /\ [][ResNext]_vars

FetchSpecInit ==
    DayInit /\ StoreInit /\ EvalIdle /\ RetryIdle /\ ResIdle /\ RestIdle

FetchSpec == FetchSpecInit /\ [][FetchNext]_vars

SchedSpecInit ==
    DayInit /\ StoreInit /\ EvalIdle /\ RetryIdle /\ ResIdle /\ RestIdle

SchedSpec == SchedSpecInit /\ [][SchedNext]_vars

\* one fixture, kicking off in the second hour of day 0
OpsInit ==
    /\ \E c1 \in DayChoices : upstream = <<Analysed(1, 1, c1)>>
    /\ gen_runs = 0
    /\ top_5_matches = {}

OpsSpecInit ==
    OpsInit /\ StoreInit /\ EvalIdle /\ RetryIdle /\ ResIdle /\ RestIdle

OpsSpec == OpsSpecInit /\ [][OpsNext]_vars

RaceSpec == OpsSpecInit /\ [][RaceNext]_vars

ExtraTimeSpec == OpsSpecInit /\ [][ExtraTimeNext]_vars

SettleSpecInit ==
    SettleInit /\ StoreInit /\ EvalIdle /\ RetryIdle /\ ResIdle /\ RestIdle

SettleSpec == SettleSpecInit /\ [][SettleNext]_vars

ReselectSpecInit ==
    ReselectInit /\ StoreInit /\ EvalIdle /\ RetryIdle /\ ResIdle /\ RestIdle

ReselectSpec == ReselectSpecInit /\ [][ReselectNext]_vars

\* the steps of LiveNext in which the morning job runs: it is pending and no
\* batch is running before, and it is not pending after
JobFetchMatchesRuns ==
    /\ daemon = "up" /\ morning_due /\ fetch_pc = "idle"
    /\ morning_due' = FALSE

\* the steps of LiveNext in which the for loop of fetch_results makes a pass
FetchProcessRuns ==
    /\ fetch_pc = "running" /\ fetch_queue # <<>>
    /\ fetch_queue' = Tail(fetch_queue)

SchedLiveSpecInit ==
    DayInit /\ StoreInit /\ EvalIdle /\ RetryIdle /\ ResIdle /\ RestIdle

\* run_scheduler.py lines 26-28: the daemon's loop runs every pending job; time
\* passes, matches are played, and a started batch runs to its end
SchedLiveSpec ==
    /\ SchedLiveSpecInit
    /\ [][LiveNext]_vars
    /\ WF_vars(DaemonStart)
    /\ WF_vars(SameDayHour)
    /\ WF_vars(WorldAdvance)
    /\ WF_morning_due(JobFetchMatchesRuns)
    /\ WF_vars(JobFetchResults({"ok"}))
    /\ WF_fetch_queue(FetchProcessRuns)
    /\ WF_vars(FetchEnd({FALSE}))

\* the verdict of one text evaluated on its own against the harness match's score
Alone(text) ==
    evaluate_prediction(text, match.home_team, match.away_team,
                        match.home_score, match.away_score)

Evaluated == prediction_result # NotEvaluated
IsCompoundInput == Len(match.betParts) = 3


(***************************************************************************)
(* C1: a compound bet "X and Y" / "X & Y" is WIN (correct = true) iff X    *)
(* and Y, each evaluated on its own against the same score, are both WIN;  *)
(* if either part is UNKNOWN the compound is LOSS.                         *)
(***************************************************************************)
C1_CompoundIffBothParts ==
    (Evaluated /\ IsCompoundInput) =>
        LET x == Alone(match.betParts[1])
            y == Alone(match.betParts[3])
            both == x.outcome = "WIN" /\ y.outcome = "WIN"
        IN  /\ (prediction_result.outcome = "WIN") <=> both
            /\ (prediction_result.correct = "True") <=> both
            /\ (x.outcome = "UNKNOWN" \/ y.outcome = "UNKNOWN")
                  => prediction_result.outcome = "LOSS"

(***************************************************************************)
(* C2 as stated: every bet text containing "home win" (case-insensitive)   *)
(* is WIN iff home score > away score, and LOSS otherwise.                 *)
(***************************************************************************)
C2_HomeWinAnyText ==
    (Evaluated /\ Contains(Lower(match.suggested_bet), "home win")) =>
        /\ (prediction_result.outcome = "WIN") <=> (match.home_score > match.away_score)
        /\ prediction_result.outcome \in {"WIN", "LOSS"}
        /\ (prediction_result.correct = "True") <=> (prediction_result.outcome = "WIN")

(***************************************************************************)
(* C2 amended: every bet text that contains "home win" and no conjunction  *)
(* marker (" and ", " & ") is WIN iff home score > away score, and LOSS    *)
(* otherwise.                                                              *)
(***************************************************************************)
C2_HomeWinSimpleText ==
    (/\ Evaluated
     /\ Contains(Lower(match.suggested_bet), "home win")
     /\ ~IsCompound(Lower(match.suggested_bet))) =>
        /\ (prediction_result.outcome = "WIN") <=> (match.home_score > match.away_score)
        /\ prediction_result.outcome \in {"WIN", "LOSS"}
        /\ (prediction_result.correct = "True") <=> (prediction_result.outcome = "WIN")

C2_Witness ==
    /\ Evaluated
    /\ Contains(Lower(match.suggested_bet), "home win")
    /\ ~IsCompound(Lower(match.suggested_bet))
    /\ match.home_score = match.away_score
    /\ prediction_result.outcome = "LOSS"


\* the AI invocations and the sleeps of analyze_match so far, in order
Calls == SelectSeq(ai_log, LAMBDA e : e.ev = "call")
Sleeps == SelectSeq(ai_log, LAMBDA e : e.ev = "sleep")

IsFallback(r) ==
    r.confidence_score = 0 /\ r.risk_level = "High Risk" /\ r.suggested_bet = "N/A"

\* analyze_match returned after rate-limit failures on attempts 0, 1, 2 and a
\* response on attempt 3 that parsed
ThreeRateLimitsThenSuccess ==
    /\ ai_pc = "done"
    /\ Len(Calls) = 4
    /\ \A i \in 1..3 : Calls[i].at = "rate_limit"
    /\ Calls[4].at = "ok"

\* analyze_match returned after rate-limit failures on all of attempts 0..3
FourRateLimits ==
    /\ ai_pc = "done"
    /\ Len(Calls) = 4
    /\ \A i \in 1..4 : Calls[i].at = "rate_limit"

(***************************************************************************)
(* C3: rate-limit failures on attempts 0, 1 and 2 followed by a success on *)
(* attempt 3 return the parsed success result after exactly 3 sleeps in    *)
(* total, none of them before attempt 0.                                   *)
(***************************************************************************)
C3_ThreeSleepsThenSuccess ==
    ThreeRateLimitsThenSuccess =>
        /\ Len(Sleeps) = 3
        /\ ai_log[1].ev = "call"
        /\ ~IsFallback(ai_result)

(***************************************************************************)
(* C4: analyze_match calls the AI at most max_retries + 1 = 4 times        *)
(* (attempts 0..3); when all four fail with a rate-limit signal it returns *)
(* the fallback (confidence 0.0, High Risk, "N/A") and does not sleep      *)
(* after the last failure.                                                 *)
(***************************************************************************)
C4_AtMostFourCallsThenFallback ==
    /\ Len(Calls) <= max_retries + 1
    /\ max_retries + 1 = 4
    /\ \A i \in 1..Len(Calls) : Calls[i].attempt = i - 1
    /\ ai_pc = "loop" => attempt = Len(Calls)
    /\ FourRateLimits =>
          /\ IsFallback(ai_result)
          /\ ai_log[Len(ai_log)].ev = "call"

C4_Witness == FourRateLimits /\ IsFallback(ai_result) /\ Len(Sleeps) > 0

(***************************************************************************)
(* AccumulatorSelector                                                     *)
(***************************************************************************)
\* a run of the daily selection has saved its analyses
SelectionMade == gen_runs > 0

EligibleIds ==
    {upstream[i].fixture_id : i \in {j \in 1..Len(upstream) :
        upstream[j].risk_level \in {"Low Risk", "Medium Risk"}}}

LowRiskIds ==
    {upstream[i].fixture_id : i \in {j \in 1..Len(upstream) :
        upstream[j].risk_level = "Low Risk"}}

ConfidenceOf(id) ==
    LET i == CHOOSE j \in 1..Len(upstream) : upstream[j].fixture_id = id
    IN  upstream[i].confidence_score

\* C5: with fewer than 5 Low-risk analyses the selection is the 5 highest-confidence
\* analyses of the Low-risk + Medium-risk pool regardless of tier (the whole pool
\* if it has fewer than 5): no selected match has a lower confidence than an
\* eligible match that was left out
C5_TopFiveByConfidenceAcrossTiers ==
    (SelectionMade /\ Cardinality(LowRiskIds) < TopN) =>
        /\ top_5_matches \subseteq EligibleIds
        /\ Cardinality(top_5_matches) = Min(TopN, Cardinality(EligibleIds))
        /\ \A s \in top_5_matches : \A e \in EligibleIds \ top_5_matches :
               ConfidenceOf(s) >= ConfidenceOf(e)

\* the records flagged as accumulator members, and the records there are
AccaMembers(d) == {id \in Ids : d[id].exists /\ d[id].is_in_daily_acca}
Records(d) == {id \in Ids : d[id].exists}

\* a run of the daily selection finishes its save step
SelectionSaved == gen_runs' = gen_runs + 1

\* C12: running the daily selection twice for the same date with identical
\* fixtures and identical analysis results leaves the same set of records flagged
\* as accumulator members, and the same number of records, as running it once
C12_SecondRunSameMembership ==
    [][SelectionSaved =>
          /\ AccaMembers(db') = top_5_matches'
          /\ gen_runs >= 1 => /\ top_5_matches' = top_5_matches
                              /\ Cardinality(Records(db')) = Cardinality(Records(db))
                              /\ Records(db') = Records(db)]_vars

\* the selection has run twice and has members
C12_Witness ==
    /\ gen_runs = 2
    /\ top_5_matches # {}
    /\ AccaMembers(db) = top_5_matches

\* the accumulator members among the records of a day
AccaMembersOn(d, day) == {id \in AccaMembers(d) : DayOf(d[id].match_date) = day}

ResolutionDone == queried # <<>>

PrimaryAnswer == web["API-Football"]

AlternativeSources == {"ESPN", "BBC Sport", "FlashScore"}

\* the primary response signals exhausted quota, the call raised, or the status
\* is not success
PrimarySignalsFallThrough ==
    \/ PrimaryAnswer.raised
    \/ PrimaryAnswer.status_code # 200
    \/ IsQuotaError(PrimaryAnswer.errors)

\* the primary answered with success, without a quota signal, and with a fixture
PrimaryReturnsFixture ==
    /\ ~PrimarySignalsFallThrough
    /\ Len(PrimaryAnswer.response) > 0
    /\ PrimaryAnswer.response[1].well_formed

\* C6: the primary API is queried first; whenever its response signals exhausted
\* quota, the call raises or the status is non-success, the alternative sources
\* are queried next; when the primary returns a fixture (and none of these
\* signals), its scores and status are returned and no alternative is queried
C6_PrimaryFirstThenFallThrough ==
    ResolutionDone =>
        /\ Head(queried) = "API-Football"
        /\ PrimarySignalsFallThrough =>
              /\ Len(queried) >= 2
              /\ \A k \in 2..Len(queried) : queried[k] \in AlternativeSources
              /\ res_result.found => res_result.source \in AlternativeSources
        /\ PrimaryReturnsFixture =>
              /\ queried = <<"API-Football">>
              /\ res_result.found
              /\ res_result.home_score = PrimaryAnswer.response[1].home
              /\ res_result.away_score = PrimaryAnswer.response[1].away
              /\ res_result.status = PrimaryAnswer.response[1].status

\* the quota is exhausted and the first alternative source has the result
C6_Witness ==
    /\ ResolutionDone
    /\ IsQuotaError(PrimaryAnswer.errors)
    /\ queried = <<"API-Football", "ESPN">>
    /\ res_result.found /\ res_result.source = "ESPN"

FixedOrder == <<"ESPN", "BBC Sport", "FlashScore">>

\* the alternative sources queried, in order
Chain == Tail(queried)

\* the element carries two team names matching the target's home and away teams
\* and two integer scores
ElemYields(e) ==
    /\ Len(e.teams) >= 2
    /\ teams_match(target.home_team, Strip(e.teams[1]), default_threshold)
    /\ teams_match(target.away_team, Strip(e.teams[2]), default_threshold)
    /\ Len(e.scores) >= 2
    /\ IsIntText(Strip(e.scores[1])) /\ IsIntText(Strip(e.scores[2]))

\* the source answers with success and its page has such an element
Yields(source) ==
    /\ ~web[source].raised
    /\ web[source].status_code = 200
    /\ \E k \in 1..Len(web[source].page) : ElemYields(web[source].page[k])

FirstYield(source) ==
    LET page == web[source].page
        k == CHOOSE x \in 1..Len(page) :
                ElemYields(page[x]) /\ \A y \in 1..(x - 1) : ~ElemYields(page[y])
    IN  page[k]

\* C7: in the fallback chain the alternative sources are queried at most once
\* each, in the order ESPN, BBC Sport, FlashScore; the first source with scores
\* for a fixture matching home and away team ends the chain with that result;
\* a source that raises, answers non-success or has no such fixture passes
\* control to the next one
C7_ChainInOrderFirstHitWins ==
    (ResolutionDone /\ Len(queried) >= 2) =>
        /\ Head(queried) = "API-Football"
        /\ Len(Chain) <= Len(FixedOrder)
        /\ \A k \in 1..Len(Chain) : k <= Len(FixedOrder) => Chain[k] = FixedOrder[k]
        /\ \A k \in 1..Len(Chain) :
              IF Yields(Chain[k])
              THEN /\ k = Len(Chain)
                   /\ res_result.found
                   /\ res_result.source = Chain[k]
                   /\ res_result.home_score = ScoreOf(Strip(FirstYield(Chain[k]).scores[1]))
                   /\ res_result.away_score = ScoreOf(Strip(FirstYield(Chain[k]).scores[2]))
              ELSE k < Len(FixedOrder) => Len(Chain) > k
        /\ (\A k \in 1..Len(Chain) : ~Yields(Chain[k])) => ~res_result.found

\* ESPN answered with a page without the fixture, BBC Sport has it, FlashScore is
\* not asked
C7_Witness ==
    /\ ResolutionDone
    /\ ~web["ESPN"].raised /\ web["ESPN"].status_code = 200
    /\ queried = <<"API-Football", "ESPN", "BBC Sport">>
    /\ res_result.found /\ res_result.source = "BBC Sport"

(***************************************************************************)
(* ResultFetcher and Scheduler                                             *)
(***************************************************************************)
\* no result was ever written on the row
NoResultWritten(row) ==
    /\ ~row.result_fetched
    /\ row.home_score = NoScore /\ row.away_score = NoScore
    /\ row.match_status = NULL
    /\ row.prediction_correct = "None" /\ row.prediction_outcome = NULL

\* a pass of the for loop ends with 'Result not available yet'
NoneStep ==
    /\ fetch_pc = "running" /\ fetch_queue # <<>>
    /\ fetch_queue' = Tail(fetch_queue)
    /\ Head(fetch_queue).id \in unavailable'
    /\ failed' = failed + 1

\* a default result-fetch cycle selects its records
BatchBegins == fetch_pc = "idle" /\ fetch_pc' = "running"

QueuedIds(queue) == {queue[k].id : k \in 1..Len(queue)}

\* C8: when every source is exhausted without a match the resolution returns
\* none, the record's persisted fields stay as they were (result_fetched false,
\* no score, status or outcome written), and the next default result-fetch
\* cycle picks the record up again while it is inside the look-back window
C8_UnavailableStaysRetryable ==
    /\ [](\A id \in unavailable : db[id].exists /\ NoResultWritten(db[id]))
    /\ [][NoneStep => db' = db]_vars
    /\ [][BatchBegins =>
            \A id \in unavailable :
               (db[id].match_date >= now - HoursPerDay /\ db[id].match_date <= now)
                  => id \in QueuedIds(fetch_queue')]_vars

\* a record whose earlier resolution returned none is in the queue of a later cycle
C8_Witness ==
    /\ fetch_pc = "running"
    /\ \E id \in unavailable : id \in QueuedIds(fetch_queue)

TerminalStatuses == {"FT", "AET", "PEN", "WO", "PST", "CANC", "ABD"}

\* an accumulator match of the current day has a status outside the terminal
\* set, or none yet
UnfinishedToday(d, t) ==
    \E id \in Ids :
        /\ d[id].exists /\ d[id].is_in_daily_acca
        /\ DayOf(d[id].match_date) = DayOf(t)
        /\ d[id].match_status \notin TerminalStatuses

\* a run of job_fetch_results ends
CycleEnds == job_runs' # job_runs

\* the daemon stays up and has fewer hourly jobs than before
SelfCancels == daemon = "up" /\ daemon' = "up" /\ results_jobs' < results_jobs

\* C10: the hourly job cancels itself only right after a fetch cycle at whose end
\* no accumulator match of the current day has a status outside {FT, AET, PEN,
\* WO, PST, CANC, ABD}; while such a match has a non-terminal or unset status
\* the job stays scheduled, and an exception inside the cycle never cancels it
C10_CancelsOnlyWhenDayFinished ==
    [][/\ SelfCancels => (CycleEnds /\ ~UnfinishedToday(db', now'))
       /\ (CycleEnds /\ UnfinishedToday(db', now')) => results_jobs' = results_jobs
       /\ (CycleEnds /\ sched_last' = "exception") => results_jobs' = results_jobs]_vars

\* the job has cancelled itself on a day whose accumulator matches are all finished
C10_Witness ==
    /\ daemon = "up" /\ sched_last = "cancelled" /\ results_jobs = 0
    /\ \E id \in Ids : /\ db[id].exists /\ db[id].is_in_daily_acca
                       /\ DayOf(db[id].match_date) = DayOf(now)
                       /\ db[id].match_status \in TerminalStatuses
    /\ ~UnfinishedToday(db, now)

\* the matches of the last daily selection
Tracked == top_5_matches

\* C9: if the hourly job keeps firing and the sources eventually report a
\* terminal status for every tracked match of the day, then every tracked
\* match's persisted status eventually becomes terminal and the hourly job
\* eventually cancels itself, also when an earlier cycle saw the match with a
\* non-terminal status
C9_TrackedEventuallyTerminal ==
    (/\ daemon = "up" /\ Tracked # {}
     /\ \A id \in Tracked : phase[id] \in TerminalStatuses)
    ~> (/\ \A id \in Tracked : db[id].match_status \in TerminalStatuses
        /\ results_jobs = 0)

(***************************************************************************)
(* Stored outcomes                                                         *)
(***************************************************************************)
\* a prediction outcome field of the row is set
OutcomeSet(row) == row.prediction_outcome # NULL \/ row.prediction_correct # "None"

\* C11: in every reachable state, after any sequence of daily selections, result
\* fetches (default, by date, by id) and manual overrides, a record whose
\* prediction outcome fields are set has a terminal match status and a non-null
\* suggested bet
C11_OutcomeOnlyWithTerminalStatus ==
    \A id \in Ids :
        (db[id].exists /\ OutcomeSet(db[id]))
            => /\ db[id].match_status \in TerminalStatuses
               /\ db[id].suggested_bet # NULL

\* the records of a population with an outcome
WithOutcome(d, population, outcome) ==
    {id \in population : d[id].prediction_outcome = outcome}

\* the block counts the WIN records as correct and the LOSS records as incorrect,
\* and its accuracy is WIN / (WIN + LOSS)
ExcludesUnknown(d, population, stats) ==
    LET wins == Cardinality(WithOutcome(d, population, "WIN"))
        losses == Cardinality(WithOutcome(d, population, "LOSS"))
    IN  /\ stats.correct = wins
        /\ stats.incorrect = losses
        /\ wins + losses > 0 =>
              stats.accuracy.num * (wins + losses) = wins * stats.accuracy.den

\* C14: accuracy statistics exclude records with UNKNOWN outcome from the
\* denominator: the reported accuracy is WIN count divided by (WIN count + LOSS
\* count), and an UNKNOWN record is counted neither as correct nor as incorrect
C14_AccuracyExcludesUnknown ==
    /\ ExcludesUnknown(db, acca_matches(db), show_accuracy_stats(db))
    /\ ExcludesUnknown(db, base_query(db, now, default_days), post_mortem(db, now))
    /\ ExcludesUnknown(db, completed_matches(db, now), dashboard(db, now))

(***************************************************************************)
(* OutcomeEvaluator: the simple patterns                                   *)
(***************************************************************************)
\* the evaluated bet text as the evaluator reads it, and the teams' names in it
TheBet == Lower(match.suggested_bet)
TheHome == Lower(match.home_team)
TheAway == Lower(match.away_team)

\* the evaluator has judged a text without a conjunction marker
SimpleEvaluated == Evaluated /\ ~IsCompound(TheBet)

\* the verdict is decisive and is WIN exactly if the condition holds
JudgedBy(condition) ==
    /\ prediction_result.outcome = (IF condition THEN "WIN" ELSE "LOSS")
    /\ prediction_result.correct = (IF condition THEN "True" ELSE "False")

\* C15: a non-compound bet with double-chance phrasing (text containing 'double
\* chance' or text containing 'or draw') is judged as a double chance: WIN iff
\* home score >= away score when the home team's name appears in the text,
\* otherwise WIN iff away score >= home score
C15_DoubleChancePhrasing ==
    (/\ SimpleEvaluated
     /\ Contains(TheBet, "double chance") \/ Contains(TheBet, "or draw")) =>
        JudgedBy(IF Contains(TheBet, TheHome)
                 THEN match.home_score >= match.away_score
                 ELSE match.away_score >= match.home_score)

\* C16: a non-compound bet that contains 'away win', contains the away-team name
\* followed by 'win', or starts with the away-team name is judged WIN iff away
\* score > home score, as the home-team phrasings are judged WIN iff home score >
\* away score
C16_AwayWinSymmetric ==
    /\ (/\ SimpleEvaluated
        /\ \/ Contains(TheBet, "away win")
           \/ Contains(TheBet, TheAway \o " win")
           \/ StartsWith(TheBet, TheAway))
          => JudgedBy(match.away_score > match.home_score)
    /\ (/\ SimpleEvaluated
        /\ \/ Contains(TheBet, "home win")
           \/ Contains(TheBet, TheHome \o " win")
           \/ StartsWith(TheBet, TheHome))
          => JudgedBy(match.home_score > match.away_score)

\* the fixed order of the simple patterns
PatternOrder ==
    <<"home-win", "away-win", "draw", "both-teams-to-score", "over 2.5", "under 2.5",
      "double-chance">>

\* the text matches the pattern
MatchesPattern(pattern) ==
    CASE pattern = "home-win" -> IsHomeWinBet(TheBet, TheHome)
      [] pattern = "away-win" -> IsAwayWinBet(TheBet, TheAway)
      [] pattern = "draw" -> IsDrawBet(TheBet)
      [] pattern = "both-teams-to-score" -> IsBttsBet(TheBet)
      [] pattern = "over 2.5" -> IsOverBet(TheBet)
      [] pattern = "under 2.5" -> IsUnderBet(TheBet)
      [] OTHER -> IsDoubleChanceBet(TheBet)

\* the condition under which a bet of the pattern wins
WinsAs(pattern) ==
    CASE pattern = "home-win" -> match.home_score > match.away_score
      [] pattern = "away-win" -> match.away_score > match.home_score
      [] pattern = "draw" -> match.home_score = match.away_score
      [] pattern = "both-teams-to-score" -> match.home_score > 0 /\ match.away_score > 0
      [] pattern = "over 2.5" -> match.home_score + match.away_score >= 3
      [] pattern = "under 2.5" -> match.home_score + match.away_score <= 2
      [] OTHER -> IF Contains(TheBet, TheHome)
                  THEN match.home_score >= match.away_score
                  ELSE match.away_score >= match.home_score

MatchedPatterns == {k \in 1..Len(PatternOrder) : MatchesPattern(PatternOrder[k])}

\* every part of the compound, judged on its own, is a win
AllPartsWin ==
    LET parts == CompoundParts(TheBet)
    IN  \A k \in 1..Len(parts) : Alone(Strip(parts[k])).outcome = "WIN"

\* C17: classification is ordered and first match wins: the conjunction marker is
\* tested before every simple pattern, and a non-compound text matching several
\* patterns gets the verdict of the earliest one in the fixed order home-win,
\* away-win, draw, both-teams-to-score, over 2.5, under 2.5, double-chance
C17_OrderedFirstMatchWins ==
    /\ (Evaluated /\ IsCompound(TheBet)) => JudgedBy(AllPartsWin)
    /\ (SimpleEvaluated /\ MatchedPatterns # {}) =>
          \E first \in MatchedPatterns :
             /\ \A k \in MatchedPatterns : first <= k
             /\ JudgedBy(WinsAs(PatternOrder[first]))

\* a text matching two patterns whose verdicts differ has been judged, and so has
\* a compound whose first part alone is a win while the compound is not
C17_Witness ==
    \/ /\ SimpleEvaluated /\ Cardinality(MatchedPatterns) >= 2
       /\ \E j \in MatchedPatterns, k \in MatchedPatterns :
             WinsAs(PatternOrder[j]) # WinsAs(PatternOrder[k])
    \/ /\ Evaluated /\ IsCompoundInput
       /\ Alone(match.betParts[1]).outcome = "WIN"
       /\ prediction_result.outcome = "LOSS"

\* correct and outcome of a verdict agree
Agree(v) ==
    \/ v.outcome = "WIN" /\ v.correct = "True"
    \/ v.outcome = "LOSS" /\ v.correct = "False"
    \/ v.outcome = "UNKNOWN" /\ v.correct = "None"

\* C18: for every integer score, a bet text that matches no pattern (e.g. 'Some
\* Exotic Bet Type') evaluates to {correct: unknown (null), outcome: UNKNOWN} and
\* the evaluator never raises; correct and outcome always agree (WIN with true,
\* LOSS with false, UNKNOWN with null)
C18_UnmatchedIsUnknown ==
    Evaluated =>
        /\ ~prediction_result.raised
        /\ Agree(prediction_result)
        /\ (~IsCompound(TheBet) /\ MatchedPatterns = {}) =>
              /\ prediction_result.outcome = "UNKNOWN"
              /\ prediction_result.correct = "None"
        /\ match.suggested_bet = "Some Exotic Bet Type" =>
              prediction_result.outcome = "UNKNOWN"

\* 'Some Exotic Bet Type' has been judged at 2-0
C18_Witness ==
    /\ Evaluated
    /\ match.suggested_bet = "Some Exotic Bet Type"
    /\ match.home_score = 2 /\ match.away_score = 0
    /\ prediction_result.outcome = "UNKNOWN"

\* the total of the evaluated score
TotalGoals == match.home_score + match.away_score

\* C19: for every integer score an 'Over 2.5' (or 'o2.5') bet is WIN iff home +
\* away >= 3 and LOSS iff home + away <= 2, an 'Under 2.5' (or 'u2.5') bet has the
\* opposite verdict, the comparison is never UNKNOWN, and exactly one of the two
\* bets wins on any score
C19_OverUnderDecisive ==
    Evaluated =>
        /\ TheBet \in {"over 2.5", "o2.5"} => JudgedBy(TotalGoals >= 3)
        /\ TheBet \in {"under 2.5", "u2.5"} => JudgedBy(TotalGoals <= 2)
        /\ Alone("Over 2.5").outcome \in {"WIN", "LOSS"}
        /\ Alone("Under 2.5").outcome \in {"WIN", "LOSS"}
        /\ Alone("Over 2.5").outcome # Alone("Under 2.5").outcome
        /\ Alone("O2.5") = Alone("Over 2.5")
        /\ Alone("U2.5") = Alone("Under 2.5")

\* 'Over 2.5' has lost at 1-1, or has won at 2-1
C19_Witness ==
    /\ Evaluated
    /\ match.suggested_bet = "Over 2.5"
    /\ \/ match.home_score = 1 /\ match.away_score = 1
          /\ prediction_result.outcome = "LOSS"
       \/ match.home_score = 2 /\ match.away_score = 1
          /\ prediction_result.outcome = "WIN"

\* C20: for every score a both-teams-to-score bet ('both teams to score', 'btts',
\* or 'gg' after hyphens are stripped) is WIN iff home score > 0 and away score >
\* 0, and LOSS otherwise
C20_BothTeamsToScore ==
    (/\ SimpleEvaluated
     /\ TheBet \in {"both teams to score", "btts", "g-g", "gg"}) =>
        JudgedBy(match.home_score > 0 /\ match.away_score > 0)

\* 'BTTS' has lost at 0-3
C20_Witness ==
    /\ Evaluated
    /\ match.suggested_bet = "BTTS"
    /\ match.home_score = 0 /\ match.away_score = 3
    /\ prediction_result.outcome = "LOSS"

(***************************************************************************)
(* AIRetryExecutor: failures, waits and the parsing of the response        *)
(***************************************************************************)
IsCall(k) == ai_log[k].ev = "call"

\* the call logged at k raised
CallFailed(k) == IsCall(k) /\ ai_log[k].response = NoResponse

\* the calls logged at i and j follow each other
NextCall(i, j) ==
    /\ i < j /\ IsCall(i) /\ IsCall(j)
    /\ \A k \in (i + 1)..(j - 1) : ~IsCall(k)

RECURSIVE SleptBetween(_, _)
\* the milliseconds slept between the log entries i and j
SleptBetween(i, j) ==
    IF i + 1 >= j THEN 0 ELSE ai_log[i + 1].ms + SleptBetween(i + 1, j)

\* C21: when the AI call fails with an error that is not rate-limit-shaped, on any
\* attempt, analyze_match returns the fallback (confidence 0.0, High Risk, 'N/A')
\* at once: no AI call and no sleep follow the failure, and a result is returned
C21_OtherErrorFallsBackAtOnce ==
    \A k \in 1..Len(ai_log) :
        (CallFailed(k) /\ ~is_rate_limit(ai_log[k].error)) =>
            /\ k = Len(ai_log)
            /\ ai_pc = "done"
            /\ IsFallback(ai_result)

\* the third attempt fails with a server error after two rate-limit failures
C21_Witness ==
    /\ ai_pc = "done"
    /\ Len(Calls) = 3
    /\ Calls[1].at = "rate_limit" /\ Calls[2].at = "rate_limit"
    /\ Calls[3].error = "500 Internal error encountered"
    /\ IsFallback(ai_result)

\* the call logged at k raised a rate-limit-shaped error
RateLimited(k) == CallFailed(k) /\ is_rate_limit(ai_log[k].error)

\* the delay the error of the call logged at k suggests, in milliseconds
SuggestedDelay(k) == extract_retry_delay_from_error(ai_log[k].error)

\* C22: when a rate-limit error carries a server-suggested delay of d seconds
\* (any d >= 0 the patterns extract) and attempts remain, the wait before the next
\* AI call is exactly d + 1 seconds; backoff is used only without a suggested delay
C22_SuggestedDelayPlusOne ==
    \A i \in 1..Len(ai_log) : \A j \in 1..Len(ai_log) :
        (NextCall(i, j) /\ RateLimited(i) /\ SuggestedDelay(i) # NoDelay) =>
            SleptBetween(i, j) = SuggestedDelay(i) + 1000

\* C23: when a rate-limit error on attempt n (0 <= n < 3) carries no suggested
\* delay, the total wait before the next AI call is baseDelay * 2^n plus a jitter
\* between 0 and min(10% of that delay, 1 second), with baseDelay = 1 second
C23_BackoffWait ==
    \A i \in 1..Len(ai_log) : \A j \in 1..Len(ai_log) :
        (NextCall(i, j) /\ RateLimited(i) /\ SuggestedDelay(i) = NoDelay) =>
            LET delay == 1000 * Pow2(ai_log[i].attempt)
            IN  /\ ai_log[i].attempt \in 0..2
                /\ SleptBetween(i, j) >= delay
                /\ SleptBetween(i, j) <= delay + Min(delay \div 10, 1000)

IsNeutral(r) ==
    r.confidence_score = 50 /\ r.risk_level = "Medium Risk" /\ r.suggested_bet = "N/A"

\* the text of the answer r is not JSON, is JSON but no object, or carries a
\* confidence that is no number
Unparseable(r) == r.body \in {"not_json", "array"} \/ ~r.number

\* C24: whenever the AI call succeeds but its text cannot be parsed into the
\* structured result (not JSON, JSON that is not an object, a confidence that is
\* not a number), analyze_match returns the neutral result (5.0, Medium Risk,
\* 'N/A'), not the failure fallback, and makes no further AI call; an object
\* inside markdown fences is parsed like the bare object
C24_UnparseableIsNeutral ==
    \A k \in 1..Len(ai_log) :
        (IsCall(k) /\ ~CallFailed(k)) =>
            LET r == ai_log[k].response IN
            /\ k = Len(ai_log)
            /\ ai_pc = "done"
            /\ Unparseable(r) => IsNeutral(ai_result) /\ ~IsFallback(ai_result)
            /\ ~Unparseable(r) =>
                  /\ ai_result.confidence_score = r.confidence
                  /\ ai_result.risk_level = r.risk_level
                  /\ ai_result.suggested_bet = r.suggested_bet

\* C25: every confidence score returned by analyze_match lies within 0.0-10.0,
\* whatever number the AI response carries
C25_ConfidenceWithinBounds ==
    ai_pc = "done" => ai_result.confidence_score \in 0..100

(***************************************************************************)
(* AccumulatorSelector: the Low-risk selection and the ineligible tiers    *)
(***************************************************************************)
\* where each analysed fixture stands in the analysed list of the run
PositionOf ==
    LET analysed == analyzed_matches(get_fixtures(DayOf(now)))
    IN  [id \in {analysed[i].fixture_id : i \in 1..Len(analysed)} |->
            CHOOSE i \in 1..Len(analysed) : analysed[i].fixture_id = id]

\* C26: when at least 5 Low-risk analyses exist, the selection is exactly the 5
\* highest-confidence Low-risk matches and no Medium-risk match is selected; among
\* equal confidence scores the order of the analysed list decides (stable sort)
C26_FiveBestLowRisk ==
    (SelectionMade /\ Cardinality(LowRiskIds) >= TopN) =>
        LET pos == PositionOf IN
        /\ top_5_matches \subseteq LowRiskIds
        /\ Cardinality(top_5_matches) = 5
        /\ \A s \in top_5_matches : \A e \in LowRiskIds \ top_5_matches :
              \/ ConfidenceOf(s) > ConfidenceOf(e)
              \/ ConfidenceOf(s) = ConfidenceOf(e) /\ pos[s] < pos[e]

\* six Low-risk analyses of equal confidence: the Championship fixture, last in
\* the analysed list, is the one left out
C26_Witness ==
    /\ SelectionMade
    /\ LowRiskIds = Ids
    /\ \A id \in Ids : ConfidenceOf(id) = 80
    /\ top_5_matches = Ids \ {3}
    /\ AccaMembers(db) = Ids \ {3}

\* the fixtures of the day that the run analysed, and those it saved
AnalysedInRun ==
    LET taken == fixtures_to_analyze(get_fixtures(DayOf(now)))
    IN  {taken[i].fixture_id : i \in 1..Len(taken)}

\* the analysis of the run for each followed fixture of the day: the tier the
\* analysis gave, Not Analyzed for a fixture beyond the quota
TierInRun ==
    LET analysed == AnalysedInRun
    IN  [i \in 1..Len(upstream) |->
            IF upstream[i].fixture_id \in analysed THEN upstream[i].risk_level
            ELSE "Not Analyzed"]

\* C27: after any daily-selection run, no record whose analysis in that run is
\* High Risk or Not Analyzed (the AI failure fallback and the fixtures skipped by
\* the analysis quota included) is flagged as an accumulator member, and at most 5
\* records are flagged by the run
C27_IneligibleNeverFlagged ==
    SelectionMade =>
        LET tier == TierInRun IN
        /\ \A i \in 1..Len(upstream) :
              tier[i] \in {"High Risk", "Not Analyzed"} =>
                 /\ upstream[i].fixture_id \notin top_5_matches
                 /\ upstream[i].fixture_id \in Ids =>
                       /\ db[upstream[i].fixture_id].exists
                       /\ ~db[upstream[i].fixture_id].is_in_daily_acca
        /\ Cardinality(top_5_matches) <= 5
        /\ Cardinality(AccaMembers(db)) <= 5

\* three of the followed fixtures fell beyond the quota although their analysis
\* would be Low Risk: they are saved unflagged, beside a High Risk one and two
\* flagged ones
C27_Witness ==
    /\ SelectionMade
    /\ Len(upstream) = MAX_DAILY_ANALYSIS + 3
    /\ \A i \in 1..Len(upstream) :
          upstream[i].fixture_id \in {2, 3, 4, 5, 6} => upstream[i].risk_level = "Low Risk"
    /\ \E i \in 1..Len(upstream) :
          upstream[i].fixture_id = 1 /\ upstream[i].risk_level = "High Risk"
    /\ AnalysedInRun \cap Ids = {1, 2, 5}
    /\ AccaMembers(db) = {2, 5}
    /\ \A id \in {3, 4, 6} : db[id].exists /\ db[id].suggested_bet = "N/A"

(***************************************************************************)
(* ResultFetcher: outcomes once written, and the counters of a run         *)
(***************************************************************************)
\* C28: the outcome and post-mortem fields of a record are written at most once:
\* once prediction_correct / prediction_outcome (and the post-mortem) are set, no
\* later result-fetch run (default window, by date, by record id) and no manual
\* override changes them
C28_OutcomeWrittenOnce ==
    [][\A id \in Ids :
          OutcomeSet(db[id]) =>
             /\ db'[id].prediction_correct = db[id].prediction_correct
             /\ db'[id].prediction_outcome = db[id].prediction_outcome
             /\ db[id].post_mortem_generated => db'[id].post_mortem_generated]_vars

\* the ids of the Match objects still to process are all different
QueueDistinct ==
    \A i \in 1..Len(fetch_queue) : \A j \in 1..Len(fetch_queue) :
        fetch_queue[i].id = fetch_queue[j].id => i = j

\* C29: in a result-fetch run every selected record is processed exactly once and
\* counted exactly once, as successful or as failed; an unavailable result or an
\* exception for one record never keeps the later records from being processed,
\* so at the end successful + failed equals the number of selected records
C29_EveryRecordCountedOnce ==
    /\ QueueDistinct
    /\ successful + failed + Len(fetch_queue) = fetch_found
    /\ fetch_pc = "idle" =>
          /\ fetch_queue = <<>>
          /\ successful + failed = fetch_found

\* a run over two records has ended: the evaluation of the first raised (full
\* time without goals), the second was saved
C29_Witness ==
    /\ fetch_pc = "idle"
    /\ fetch_found = 2
    /\ failed = 1 /\ successful = 1
    /\ unavailable = {}
    /\ phase[2] = "FT" /\ db[2].suggested_bet = "Home Win" /\ ~db[2].result_fetched
    /\ db[1].result_fetched

(***************************************************************************)
(* TeamNameMatcher                                                         *)
(***************************************************************************)
\* the two names after normalization
Normalized == <<normalize_team_name(team_names.team1), normalize_team_name(team_names.team2)>>

CurrentVerdict(id) == VerdictOf(id, db[id])

\* C31: after any sequence of daily-selection, result-fetch and manual-override
\* operations, a record whose outcome is set stores the verdict the evaluator
\* gives for the record's current suggested bet against its current stored score
C31_OutcomeNeverStale ==
    \A id \in Ids :
        OutcomeSet(db[id]) =>
            /\ ~CurrentVerdict(id).raised
            /\ db[id].prediction_outcome = CurrentVerdict(id).outcome
            /\ db[id].prediction_correct = CurrentVerdict(id).correct

(***************************************************************************)
(* C32: a manual override committed during a batch                          *)
(***************************************************************************)
\* the batch is about to process a record that an operator settled by hand after
\* the batch read it: the default query reads only records without a result
OverriddenSinceSnapshot ==
    /\ fetch_pc = "running"
    /\ fetch_queue # <<>>
    /\ ~Head(fetch_queue).row.result_fetched
    /\ db[Head(fetch_queue).id].result_fetched

\* C32: a manual override committed while a fetch batch is in progress is never
\* lost: when the batch later processes that record, the score, status and
\* outcome entered by hand are not replaced by the values of the batch's earlier
\* snapshot or by a result the batch fetched that is not final
C32_ManualOverrideNotLost ==
    [][ (OverriddenSinceSnapshot /\ fetch_queue' = Tail(fetch_queue)) =>
           LET id == Head(fetch_queue).id
           IN  \/ db'[id].match_status = "FT" /\ phase[id] = "FT"
               \/ /\ db'[id].home_score = db[id].home_score
                  /\ db'[id].away_score = db[id].away_score
                  /\ db'[id].match_status = db[id].match_status
                  /\ db'[id].prediction_outcome = db[id].prediction_outcome
                  /\ db'[id].prediction_correct = db[id].prediction_correct ]_vars

(***************************************************************************)
(* C33: the frame of the scheduled generation                               *)
(***************************************************************************)
\* a step of job_fetch_matches: only it takes the due 07:00 job off a running
\* daemon
MorningJobStep ==
    /\ daemon = "up" /\ daemon' = "up"
    /\ morning_due /\ ~morning_due'

\* C33: the scheduled 07:00 generation changes membership flags only on records
\* of the day being generated, also when it exits early, so that the flags of
\* the accumulators of earlier days stay as they were
C33_MorningJobTouchesOnlyItsDay ==
    [][ MorningJobStep =>
           \A id \in Ids :
              db'[id].is_in_daily_acca # db[id].is_in_daily_acca =>
                 /\ db'[id].exists
                 /\ DayOf(db'[id].match_date) = DayOf(now) ]_vars

(***************************************************************************)
(* C34: results with a terminal status other than FT                        *)
(***************************************************************************)
\* the terminal statuses of a finished match that are not FT
OtherFinalStatuses == {"AET", "PEN", "WO"}

\* the outcome and post-mortem fields of a record
OutcomeFields(row) ==
    <<row.prediction_correct, row.prediction_outcome, row.post_mortem_generated>>

\* C34: an outcome is computed only when the stored status is exactly FT: a
\* record whose result arrives with another terminal status (AET, PEN, WO) is
\* saved with result_fetched = true, receives no outcome and no post-mortem from
\* that write, be it of fetch_results or of manual_results, and the default
\* fetch cycle does not select it again
C34_OnlyFullTimeIsEvaluated ==
    /\ [](\A id \in Ids :
             db[id].match_status \in OtherFinalStatuses =>
                /\ db[id].result_fetched
                /\ id \notin DefaultSelected(db, now))
    /\ [][ \A id \in Ids :
             (db'[id] # db[id] /\ db'[id].match_status \in OtherFinalStatuses) =>
                OutcomeFields(db'[id]) = OutcomeFields(db[id]) ]_vars

\* the batch has saved the selected record with the status AET that the primary
\* API reports; the record is fetched, has no outcome and no post-mortem
C34_Witness ==
    /\ successful = 1
    /\ phase[1] = "AET"
    /\ db[1].match_status = "AET"
    /\ db[1].home_score = 1 /\ db[1].away_score = 2
    /\ db[1].suggested_bet = "Home Win"
    /\ db[1].is_in_daily_acca
    /\ db[1].result_fetched
    /\ db[1].prediction_outcome = NULL
    /\ ~db[1].post_mortem_generated

(***************************************************************************)
(* C35: a record whose processing raises                                    *)
(***************************************************************************)
\* one pass of the for loop that ends with failed += 1: no result was available,
\* or the processing raised after the result was obtained
FailedPass ==
    /\ fetch_pc = "running"
    /\ fetch_queue # <<>>
    /\ fetch_queue' = Tail(fetch_queue)
    /\ failed' = failed + 1

\* C35: if processing a record raises after its result was obtained (a final
\* status that comes with missing scores makes the evaluation raise), the stored
\* record is unchanged by the run: no score, status, fetched flag or outcome is
\* stored; the record is counted as failed and the next default fetch cycle
\* selects it again
C35_RaisedRecordUntouched ==
    [][ FailedPass =>
           LET id == Head(fetch_queue).id
           IN  /\ db'[id] = db[id]
               /\ successful' = successful
               /\ ~db'[id].result_fetched
               /\ id \in DefaultSelected(db', now') ]_vars

\* the first record of the batch is at full time and the primary API answered it
\* without goals: the pass raised (no result was ever unavailable), one record is
\* counted as failed, and the record is stored as it was generated
C35_Witness ==
    /\ fetch_pc = "running"
    /\ fetch_found = 2 /\ Len(fetch_queue) = 1
    /\ failed = 1 /\ successful = 0
    /\ unavailable = {}
    /\ phase[2] = "FT"
    /\ db[2].suggested_bet = "Home Win"
    /\ db[2].match_status = NULL
    /\ db[2].home_score = NoScore /\ db[2].away_score = NoScore
    /\ ~db[2].result_fetched
    /\ db[2].prediction_outcome = NULL
    /\ 2 \in DefaultSelected(db, now)

(***************************************************************************)
(* C36: when the alternative sources are queried                            *)
(***************************************************************************)
\* the primary answered with success, without a quota signal, and with an empty
\* fixture list
PrimaryAnswersEmpty ==
    /\ ~PrimarySignalsFallThrough
    /\ Len(PrimaryAnswer.response) = 0

\* the primary answered with success and without a quota signal, but its first
\* fixture entry lacks the goals or status keys
PrimaryUnreadable ==
    /\ ~PrimarySignalsFallThrough
    /\ Len(PrimaryAnswer.response) > 0
    /\ ~PrimaryAnswer.response[1].well_formed

AlternativesQueried == \E k \in 1..Len(queried) : queried[k] \in AlternativeSources

\* C36: when the primary API answers with HTTP success, no quota error and an
\* empty fixture list, the resolution returns none without querying any
\* alternative source; the alternative sources are queried only on quota
\* exhaustion, transport failure or non-success status
C36_AlternativesOnlyOnSignal ==
    ResolutionDone =>
        /\ PrimaryAnswersEmpty => (queried = <<"API-Football">> /\ ~res_result.found)
        /\ AlternativesQueried => PrimarySignalsFallThrough

\* C36 as the code has it: the alternative sources are queried also when the
\* success response cannot be read, and in no further case
C36_AlternativesOnSignalOrUnreadable ==
    ResolutionDone =>
        /\ PrimaryAnswersEmpty => (queried = <<"API-Football">> /\ ~res_result.found)
        /\ AlternativesQueried => (PrimarySignalsFallThrough \/ PrimaryUnreadable)

\* the primary answered 200 with an empty list; ESPN, which shows the final
\* score of the fixture, was not asked and no result is returned
C36_Witness ==
    /\ ResolutionDone
    /\ PrimaryAnswersEmpty
    /\ web["ESPN"] = Answer(200, PageFinal)
    /\ queried = <<"API-Football">>
    /\ ~res_result.found

(***************************************************************************)
(* C37: the bets of the accumulator members                                 *)
(***************************************************************************)
\* C37: no record flagged as an accumulator member carries the sentinel bet
\* 'N/A': every match selected into the daily accumulator has a suggested bet
\* that the evaluator can be asked to judge
C37_MembersHaveRealBet ==
    \A id \in Ids :
        (db[id].exists /\ db[id].is_in_daily_acca) => db[id].suggested_bet # "N/A"

(***************************************************************************)
(* C38: the hourly job of the scheduler                                     *)
(***************************************************************************)
\* C38: at every point of the scheduler's life at most one hourly result-fetch
\* job is registered, whatever sequence of daemon start-ups, 07:00 triggers,
\* generation failures and self-cancellations occurs; the 07:00 trigger starts
\* the hourly job only after the daily generation returned without raising
C38_AtMostOneHourlyJob ==
    /\ [](results_jobs \in {0, 1})
    /\ [][ MorningJobStep =>
              IF sched_last' = "generated"
              THEN results_jobs' = 1 /\ ~hour_due'
              ELSE /\ sched_last' = "generation_failed"
                   /\ results_jobs' = results_jobs
                   /\ hour_due' = hour_due ]_vars

\* the 07:00 trigger of the second day has generated and the daemon, which
\* started the hourly job for the records of the first day as well, holds one
\* hourly job
C38_Witness ==
    /\ daemon = "up"
    /\ now = HoursPerDay + MorningHour
    /\ sched_last = "generated"
    /\ gen_runs = 1
    /\ \E id \in Ids : db[id].exists /\ DayOf(db[id].match_date) = 0
    /\ results_jobs = 1
    /\ ~hour_due

=============================================================================
